---- MODULE Spec2Model ----
(***************************************************************************)
(* A model of SystemCurve.py: the Curve iterator that sweeps the flow rate *)
(* and evaluates the head loss of a pipe network, and the                  *)
(* ColebrookEquation iterator that estimates a pipe's friction factor.     *)
(*                                                                         *)
(* Python floats are IEEE 754 doubles and are modelled as such: a float    *)
(* is a tuple <<s, hi, lo, e>> of value s * (hi * 2^28 + lo) * 2^(e - 52), *)
(* with the sign s in {1, -1} and the 53-bit significand hi * 2^28 + lo in *)
(* [2^52, 2^53); zero has hi = lo = e = 0.  Addition, subtraction,         *)
(* multiplication, division and square root give the correctly rounded     *)
(* double (round to nearest, ties to even), as the hardware does.         *)
(* math.log and ** call the log and the pow of the C library, which are    *)
(* not correctly rounded in every case: the model computes them as glibc   *)
(* 2.36 does on x86-64 with fused multiply-add, operation by operation     *)
(* and with the tables of the library.                                     *)
(* Numbers are kept in limbs so that no intermediate value leaves 32 bits. *)
(* Subnormal numbers and infinities do not occur for the inputs of the     *)
(* model.  The float NaN is the value NaN, which every arithmetic          *)
(* operation propagates and every comparison answers with FALSE.           *)
(*                                                                         *)
(* The source as written does not bind the name ColebrookEquation: the     *)
(* class body assigns self.precision (line 91), which raises NameError     *)
(* when the class statement runs, so that calculate raises NameError when  *)
(* it reaches ColebrookEquation(pipe).  WrittenSpec is the source as       *)
(* written: the variable ColebrookEquation is "unbound".  Spec and SeqSpec *)
(* run, besides, the states in which it is "class": line 91 read as the    *)
(* class attribute precision = 1e-4 that next reads as self.precision.     *)
(* These are no states of the source as written; they are run so that the  *)
(* code behind line 76 is exercised too.                                   *)
(***************************************************************************)
EXTENDS Integers, Sequences, FiniteSets

\* ------------------------------------------------------------------------
\* Bounds of the model
\* ------------------------------------------------------------------------

\* number of traversals (for-loops over the same Curve) that are modelled
NumTraversals == 2

\* a traversal is not asked for more points than this (the loop body breaks)
MaxPoints == 3

\* the model follows one ColebrookEquation for at most this many next()
MaxIterations == 102

\* ------------------------------------------------------------------------
\* IEEE 754 double arithmetic, as the floats of the source compute
\* ------------------------------------------------------------------------

\* a limb of a multiplication is a digit in base B = 2^14
B == 16384

\* a half of a significand is a digit in base H = 2^28 = B * B
H == 268435456

\* 2^24 and 2^25: the high half hi of a significand has T24 <= hi < T25
T24 == 16777216
T25 == 33554432

\* 2 ** n for n in 0 .. 30
Pow2(n) == 2 ^ n

\* the number of binary digits of n, for 1 <= n < 2^31
RECURSIVE BitLen(_)
BitLen(n) == IF n < 2 THEN 1 ELSE 1 + BitLen(n \div 2)

\* 10 ** n
RECURSIVE Pow10(_)
Pow10(n) == IF n = 0 THEN 1 ELSE 10 * Pow10(n - 1)

\* the floats 0.0 and -0.0
Zero == <<1, 0, 0, 0>>
NegZero == <<-1, 0, 0, 0>>

\* float('nan')
NaN == <<0, 0, 0, 0>>

IsZero(x) == x # NaN /\ x[2] = 0

\* n with its last bit set when digits below it were lost
Sticky(n, lost) == IF lost /\ n % 2 = 0 THEN n + 1 ELSE n

\* the double of significand hi * H + lo, where lo may have carried out of
\* its half and the significand may have reached 2^53
Rounded(s, hi, lo, e) ==
    IF hi + lo \div H = T25 THEN <<s, T24, 0, e + 1>>
    ELSE <<s, hi + lo \div H, lo % H, e>>

\* the double nearest to s * X * 2^(e - 55), ties to the even significand,
\* for a 56-bit X = xhi * H + xlo with 2^55 <= X < 2^56 whose last bit
\* stands for all the digits below it
Round(s, xhi, xlo, e) ==
    Rounded(s, xhi \div 8,
            (xhi % 8) * T25 + xlo \div 8
                + (IF xlo % 8 > 4 \/ (xlo % 8 = 4 /\ (xlo \div 8) % 2 = 1)
                   THEN 1 ELSE 0),
            e)

\* the 56-bit X = M * 8 of the significand M of x, as <<xhi, xlo>>
Extended(x) == <<x[2] * 8 + x[3] \div T25, (x[3] % T25) * 8>>

\* <<hi, lo>> shifted right by d >= 0 binary digits, the last bit standing
\* for the digits lost; hi * H + lo is not 0
ShiftRight(hi, lo, d) ==
    IF d = 0 THEN <<hi, lo>>
    ELSE IF d < 28
        THEN <<hi \div Pow2(d),
               Sticky(lo \div Pow2(d) + (hi % Pow2(d)) * Pow2(28 - d),
                      lo % Pow2(d) # 0)>>
    ELSE IF d < 56
        THEN <<0, Sticky(hi \div Pow2(d - 28),
                         lo # 0 \/ hi % Pow2(d - 28) # 0)>>
    ELSE <<0, 1>>

\* <<hi, lo>> shifted left by k binary digits, for a result below 2^56
ShiftLeft(hi, lo, k) ==
    IF k = 0 THEN <<hi, lo>>
    ELSE IF k < 28
        THEN <<hi * Pow2(k) + lo \div Pow2(28 - k),
               (lo % Pow2(28 - k)) * Pow2(k)>>
    ELSE <<lo * Pow2(k - 28), 0>>

\* float(n) of an int n, |n| < 2^31
FromInt(n) ==
    IF n = 0 THEN Zero
    ELSE LET a == IF n < 0 THEN -n ELSE n
             l == BitLen(a)
         IN  IF l <= 25
                THEN <<IF n < 0 THEN -1 ELSE 1, a * Pow2(25 - l), 0, l - 1>>
                ELSE <<IF n < 0 THEN -1 ELSE 1, a \div Pow2(l - 25),
                       (a % Pow2(l - 25)) * Pow2(53 - l), l - 1>>

\* |x| >= |y| for x, y other than zero and NaN
MagnitudeAtLeast(x, y) ==
    \/ x[4] > y[4]
    \/ x[4] = y[4] /\ (x[2] > y[2] \/ (x[2] = y[2] /\ x[3] >= y[3]))

\* the significand b of the smaller float at the exponent of the larger,
\* which is d above its own
Aligned(b, d) == ShiftRight(Extended(b)[1], Extended(b)[2], d)

\* the double nearest to s * (hi * H + lo) * 2^(e - 55) for a sum of two
\* 56-bit numbers
AddRounded(s, hi, lo, e) ==
    IF hi >= H
       THEN Round(s, hi \div 2,
                  Sticky(lo \div 2 + (hi % 2) * Pow2(27), lo % 2 = 1),
                  e + 1)
       ELSE Round(s, hi, lo, e)

\* the sum of the 56-bit pairs A and Bs at the exponent e, rounded
AddExtended(s, A, Bs, e) ==
    AddRounded(s, A[1] + Bs[1] + (A[2] + Bs[2]) \div H, (A[2] + Bs[2]) % H,
               e)

\* a + b for floats of the same sign, |a| >= |b| > 0
AddMagnitudes(a, b) ==
    AddExtended(a[1], Extended(a), Aligned(b, a[4] - b[4]), a[4])

\* the double nearest to s * S * 2^(e - 55) for the pair S
RoundPair(s, S, e) == Round(s, S[1], S[2], e)

\* the double s * (hi * H + lo) * 2^(e - 55) for a difference of two 56-bit
\* numbers, which is shifted left to 56 bits
SubRounded(s, hi, lo, e) ==
    IF hi = 0 /\ lo = 0 THEN Zero
    ELSE IF hi > 0
        THEN RoundPair(s, ShiftLeft(hi, lo, 28 - BitLen(hi)),
                       e - (28 - BitLen(hi)))
    ELSE RoundPair(s, ShiftLeft(hi, lo, 56 - BitLen(lo)),
                   e - (56 - BitLen(lo)))

\* the difference A - Bs >= 0 of the 56-bit pairs at the exponent e, rounded
SubExtended(s, A, Bs, e) ==
    IF A[2] < Bs[2]
       THEN SubRounded(s, A[1] - Bs[1] - 1, A[2] - Bs[2] + H, e)
       ELSE SubRounded(s, A[1] - Bs[1], A[2] - Bs[2], e)

\* a + b for floats of opposite signs, |a| >= |b| > 0
SubMagnitudes(a, b) ==
    SubExtended(a[1], Extended(a), Aligned(b, a[4] - b[4]), a[4])

\* a + b for floats other than zero and NaN, |a| >= |b|
SumOrdered(a, b) ==
    IF a[1] = b[1] THEN AddMagnitudes(a, b) ELSE SubMagnitudes(a, b)

\* x + y
FAdd(x, y) ==
    IF x = NaN \/ y = NaN THEN NaN
    ELSE IF IsZero(x)
        THEN (IF IsZero(y) THEN (IF x[1] = -1 /\ y[1] = -1 THEN NegZero
                                 ELSE Zero)
              ELSE y)
    ELSE IF IsZero(y) THEN x
    ELSE IF MagnitudeAtLeast(x, y) THEN SumOrdered(x, y)
    ELSE SumOrdered(y, x)

\* -x and x - y
FNeg(x) == IF x = NaN THEN NaN ELSE <<-x[1], x[2], x[3], x[4]>>
FSub(x, y) == FAdd(x, FNeg(y))

\* x < y; FALSE if an operand is NaN
FLess(x, y) ==
    /\ x # NaN
    /\ y # NaN
    /\ IF IsZero(x) THEN ~IsZero(y) /\ y[1] = 1
       ELSE IF IsZero(y) THEN x[1] = -1
       ELSE IF x[1] # y[1] THEN x[1] = -1
       ELSE IF x[1] = 1 THEN ~MagnitudeAtLeast(x, y)
       ELSE ~MagnitudeAtLeast(y, x)

\* x == y of floats; FALSE if an operand is NaN
FEq(x, y) ==
    /\ x # NaN
    /\ y # NaN
    /\ (x = y \/ (IsZero(x) /\ IsZero(y)))

\* the limbs <<l7, ..., l0>> of the product of the significands
\* <<a3, a2, a1, a0>> and <<b3, b2, b1, b0>>
ProductLimbs(a3, a2, a1, a0, b3, b2, b1, b0) ==
    LET c0 == a0 * b0
        c1 == a0 * b1 + a1 * b0 + c0 \div B
        c2 == a0 * b2 + a1 * b1 + a2 * b0 + c1 \div B
        c3 == a0 * b3 + a1 * b2 + a2 * b1 + a3 * b0 + c2 \div B
        c4 == a1 * b3 + a2 * b2 + a3 * b1 + c3 \div B
        c5 == a2 * b3 + a3 * b2 + c4 \div B
        c6 == a3 * b3 + c5 \div B
    IN  <<c6 \div B, c6 % B, c5 % B, c4 % B, c3 % B, c2 % B, c1 % B,
          c0 % B>>

\* the double nearest to s * p * 2^(e - 104) for the limbs p of a product
\* of two significands
RoundProduct(s, p, e) ==
    IF p[1] >= 128
       THEN Round(s,
                  p[3] \div 256 + p[2] * 64 + p[1] * 1048576,
                  Sticky(p[5] \div 256 + p[4] * 64 + (p[3] % 256) * 1048576,
                         p[6] # 0 \/ p[7] # 0 \/ p[8] # 0
                             \/ p[5] % 256 # 0),
                  e + 1)
       ELSE Round(s,
                  p[3] \div 128 + p[2] * 128 + p[1] * 2097152,
                  Sticky(p[5] \div 128 + p[4] * 128 + (p[3] % 128) * 2097152,
                         p[6] # 0 \/ p[7] # 0 \/ p[8] # 0
                             \/ p[5] % 128 # 0),
                  e)

\* x * y
FMul(x, y) ==
    IF x = NaN \/ y = NaN THEN NaN
    ELSE IF IsZero(x) \/ IsZero(y)
        THEN (IF x[1] = y[1] THEN Zero ELSE NegZero)
    ELSE RoundProduct(IF x[1] = y[1] THEN 1 ELSE -1,
                      ProductLimbs(x[2] \div B, x[2] % B, x[3] \div B,
                                   x[3] % B, y[2] \div B, y[2] % B,
                                   y[3] \div B, y[3] % B),
                      x[4] + y[4])

\* n more binary digits of a quotient: q, the digits so far, and the
\* remainder <<rhi, rlo>>, which is below twice the divisor <<dhi, dlo>>
RECURSIVE DivBits(_, _, _, _, _, _)
DivBits(q, rhi, rlo, dhi, dlo, n) ==
    IF n = 0 THEN <<q, rhi, rlo>>
    ELSE IF rhi > dhi \/ (rhi = dhi /\ rlo >= dlo)
        THEN LET borrow == IF rlo < dlo THEN 1 ELSE 0
                 lo == rlo - dlo + borrow * H
                 hi == rhi - dhi - borrow
             IN  DivBits(2 * q + 1, 2 * hi + (2 * lo) \div H, (2 * lo) % H,
                         dhi, dlo, n - 1)
        ELSE DivBits(2 * q, 2 * rhi + (2 * rlo) \div H, (2 * rlo) % H,
                     dhi, dlo, n - 1)

\* x / y for y other than zero
FDiv(x, y) ==
    IF x = NaN \/ y = NaN THEN NaN
    ELSE IF IsZero(x) THEN (IF x[1] = y[1] THEN Zero ELSE NegZero)
    ELSE LET ge == x[2] > y[2] \/ (x[2] = y[2] /\ x[3] >= y[3])
             r0 == IF ge THEN <<x[2], x[3]>>
                   ELSE <<2 * x[2] + (2 * x[3]) \div H, (2 * x[3]) % H>>
             h  == DivBits(0, r0[1], r0[2], y[2], y[3], 28)
             l  == DivBits(0, h[2], h[3], y[2], y[3], 28)
         IN  Round(IF x[1] = y[1] THEN 1 ELSE -1,
                   h[1], Sticky(l[1], l[2] # 0 \/ l[3] # 0),
                   IF ge THEN x[4] - y[4] ELSE x[4] - y[4] - 1)

\* the binary digits of a square root, two digits of the radicand
\* <<hi, lo>>, followed by zeros, for each digit of the root: at step k the
\* root so far is <<sh, sl>> and the remainder <<r2, r1, r0>> in base H
RECURSIVE SqrtBits(_, _, _, _, _, _, _, _)
SqrtBits(hi, lo, k, sh, sl, r2, r1, r0) ==
    IF k = 56 THEN <<sh, Sticky(sl, r2 # 0 \/ r1 # 0 \/ r0 # 0)>>
    ELSE LET pair == IF k < 13 THEN (hi \div Pow2(24 - 2 * k)) % 4
                     ELSE IF k < 27 THEN (lo \div Pow2(52 - 2 * k)) % 4
                     ELSE 0
             n0 == (r0 % 67108864) * 4 + pair
             n1 == (r1 % 67108864) * 4 + r0 \div 67108864
             n2 == r2 * 4 + r1 \div 67108864
             t0 == (sl % 67108864) * 4 + 1
             t1 == (sh % 67108864) * 4 + sl \div 67108864
             t2 == sh \div 67108864
             s0 == (2 * sl) % H
             s1 == 2 * sh + (2 * sl) \div H
         IN  IF n2 > t2 \/ (n2 = t2 /\ (n1 > t1 \/ (n1 = t1 /\ n0 >= t0)))
                THEN LET b0 == IF n0 < t0 THEN 1 ELSE 0
                         b1 == IF n1 - b0 < t1 THEN 1 ELSE 0
                     IN  SqrtBits(hi, lo, k + 1, s1, s0 + 1,
                                  n2 - t2 - b1, n1 - b0 - t1 + b1 * H,
                                  n0 - t0 + b0 * H)
                ELSE SqrtBits(hi, lo, k + 1, s1, s0, n2, n1, n0)

\* math.sqrt(x) for x >= 0: the exponent is made even, the root of the
\* significand is computed to 56 binary digits
FSqrt(x) ==
    IF x = NaN THEN NaN
    ELSE IF IsZero(x) THEN x
    ELSE LET odd == x[4] % 2 = 1
             hi  == IF odd THEN 2 * x[2] + (2 * x[3]) \div H ELSE x[2]
             lo  == IF odd THEN (2 * x[3]) % H ELSE x[3]
             s   == SqrtBits(hi, lo, 0, 0, 0, 0, 0, 0)
         IN  Round(1, s[1], s[2], (x[4] - (IF odd THEN 1 ELSE 0)) \div 2)

\* the float 1.0 and -1.0
One == <<1, T24, 0, 0>>
MinusOne == <<-1, T24, 0, 0>>

\* the four halves, the highest first, of the product of the significands
\* of x and y, a number in [2^104, 2^106), from its limbs p
HalvesOf(p) ==
    <<p[1] * B + p[2], p[3] * B + p[4], p[5] * B + p[6], p[7] * B + p[8]>>

ProductHalves(x, y) ==
    HalvesOf(ProductLimbs(x[2] \div B, x[2] % B, x[3] \div B, x[3] % B,
                          y[2] \div B, y[2] % B, y[3] \div B, y[3] % B))

\* the four halves, the highest first, of M * 2^52 for the significand M
\* of x
WideOf(x) ==
    <<x[2] \div 16, (x[2] % 16) * T24 + x[3] \div 16, (x[3] % 16) * T24, 0>>

\* the half of index k of the four halves w, 0 outside them
HalfAt(w, k) == IF k >= 1 /\ k <= 4 THEN w[k] ELSE 0

\* the seven halves of w * 2^(84 - d) for four halves w and d >= 0, the
\* last bit standing for the digits lost below them
Placed(w, d) ==
    LET q == d \div 28
        s == d % 28
        lost == \/ \E k \in 1 .. 4 : k + q > 7 /\ w[k] # 0
                \/ HalfAt(w, 7 - q) % Pow2(s) # 0
    IN  [j \in 1 .. 7 |->
            IF j = 7
               THEN Sticky(HalfAt(w, j - q) \div Pow2(s)
                               + (HalfAt(w, j - q - 1) % Pow2(s))
                                     * Pow2(28 - s),
                           lost)
               ELSE HalfAt(w, j - q) \div Pow2(s)
                        + (HalfAt(w, j - q - 1) % Pow2(s)) * Pow2(28 - s)]

\* the halves of a + b for numbers of seven halves, from the j-th up, as
\* eight halves with the ones below in acc
RECURSIVE AddWide(_, _, _, _, _)
AddWide(a, b, j, carry, acc) ==
    IF j = 0 THEN <<carry>> \o acc
    ELSE AddWide(a, b, j - 1, (a[j] + b[j] + carry) \div H,
                 <<(a[j] + b[j] + carry) % H>> \o acc)

\* the halves of a - b for numbers of seven halves, a > b, as eight halves
RECURSIVE SubWide(_, _, _, _, _)
SubWide(a, b, j, borrow, acc) ==
    IF j = 0 THEN <<0>> \o acc
    ELSE IF a[j] - b[j] - borrow < 0
        THEN SubWide(a, b, j - 1, 1, <<a[j] - b[j] - borrow + H>> \o acc)
        ELSE SubWide(a, b, j - 1, 0, <<a[j] - b[j] - borrow>> \o acc)

\* a >= b for numbers of seven halves, compared from the j-th half on
RECURSIVE WideAtLeast(_, _, _)
WideAtLeast(a, b, j) ==
    IF j > 7 THEN TRUE
    ELSE IF a[j] # b[j] THEN a[j] > b[j]
    ELSE WideAtLeast(a, b, j + 1)

\* the index of the first half of w that is not 0, from the j-th on
RECURSIVE FirstHalf(_, _)
FirstHalf(w, j) == IF w[j] # 0 THEN j ELSE FirstHalf(w, j + 1)

\* the double nearest to s * w * 2^u for a number w > 0 of eight halves
\* whose first half that is not 0 is the j-th, of l binary digits
RoundWideAt(s, w, u, j, l) ==
    LET n1 == IF j + 1 <= 8 THEN w[j + 1] ELSE 0
        n2 == IF j + 2 <= 8 THEN w[j + 2] ELSE 0
    IN  Round(s,
              w[j] * Pow2(28 - l) + n1 \div Pow2(l),
              Sticky((n1 % Pow2(l)) * Pow2(28 - l) + n2 \div Pow2(l),
                     n2 % Pow2(l) # 0 \/ \E k \in j + 3 .. 8 : w[k] # 0),
              (8 - j) * 28 + l - 1 + u)

RoundWideFrom(s, w, u, j) == RoundWideAt(s, w, u, j, BitLen(w[j]))

\* the double nearest to sw[1] * sw[2] * 2^u for a sign and a number of eight
\* halves, +0 when the number is 0
RoundWide(sw, u) ==
    IF \A k \in 1 .. 8 : sw[2][k] = 0 THEN Zero
    ELSE RoundWideFrom(sw[1], sw[2], u, FirstHalf(sw[2], 1))

\* sp * p + sz * z for numbers p, z of seven halves: the sign and the eight
\* halves of the exact sum
ExactSum(sp, p, sz, z) ==
    IF sp = sz THEN <<sp, AddWide(p, z, 7, 0, <<>>)>>
    ELSE IF WideAtLeast(p, z, 1) THEN <<sp, SubWide(p, z, 7, 0, <<>>)>>
    ELSE <<sz, SubWide(z, p, 7, 0, <<>>)>>

\* a - b when that is positive, else 0
Monus(a, b) == IF a > b THEN a - b ELSE 0

\* the double nearest to sp * p * 2^(ep - 104) + sz * z * 2^(ez - 104) for
\* numbers p > 0 and z of four halves: both are aligned to the larger
\* exponent and the exact sum is rounded once
FmaSum(sp, p, ep, sz, z, ez) ==
    RoundWide(ExactSum(sp, Placed(p, Monus(ez, ep)),
                       sz, Placed(z, Monus(ep, ez))),
              ep + Monus(ez, ep) - 188)

\* the fused multiply-add x * y + z, rounded once: the instruction the C
\* library computes its polynomials with
Fma(x, y, z) ==
    IF x = NaN \/ y = NaN \/ z = NaN THEN NaN
    ELSE IF IsZero(x) \/ IsZero(y)
        THEN (IF ~IsZero(z) THEN z
              ELSE IF x[1] # y[1] /\ z[1] = -1 THEN NegZero
              ELSE Zero)
    ELSE FmaSum(IF x[1] = y[1] THEN 1 ELSE -1, ProductHalves(x, y),
                x[4] + y[4], z[1], WideOf(z),
                IF IsZero(z) THEN x[4] + y[4] ELSE z[4])

\* ------------------------------------------------------------------------
\* math.log
\* ------------------------------------------------------------------------

\* the constants of log: log(2) in two parts, the high part of 42 digits
LogLn2Hi == <<1, 23258159, 251279360, -1>>

LogLn2Lo == <<1, 32454009, 63399728, -45>>

\* the coefficients A[0] .. A[4] of the polynomial of log away from 1
LogA ==
    << <<-1, 16777216, 1, -1>>,
       <<1, 22369621, 89206875, -2>>,
       <<-1, 33554431, 267077008, -3>>,
       <<1, 26843954, 82903313, -3>>,
       <<-1, 22370142, 84330655, -3>> >>

\* the coefficients B[0] .. B[10] of the polynomial of log next to 1
LogB ==
    << <<-1, 16777216, 0, -1>>,
       <<1, 22369621, 89478519, -2>>,
       <<-1, 33554431, 268434891, -3>>,
       <<1, 26843545, 160816396, -3>>,
       <<-1, 22369621, 90654119, -3>>,
       <<1, 19173962, 54844976, -3>>,
       <<-1, 33554426, 71449957, -4>>,
       <<1, 29825090, 137025226, -4>>,
       <<-1, 26844852, 61892863, -4>>,
       <<1, 24647727, 128962693, -4>>,
       <<-1, 22356279, 97600973, -4>> >>

\* the table of log: <<invc, logc>> for each of the 128 intervals of the
\* significand, invc near 1 / c and logc near log(c) for the centre c of the
\* interval
LogTable ==
    << <<<<1, 24334092, 65068703, 0>>, <<-1, 24954871, 166105088, -2>>>>,
       <<<<1, 24196998, 170715423, 0>>, <<-1, 24575724, 34406400, -2>>>>,
       <<<<1, 24061440, 150648224, 0>>, <<-1, 24198705, 55697408, -2>>>>,
       <<<<1, 23927393, 252939389, 0>>, <<-1, 23823795, 136869888, -2>>>>,
       <<<<1, 23794832, 197506257, 0>>, <<-1, 23450969, 8419328, -2>>>>,
       <<<<1, 23663731, 53415098, 0>>, <<-1, 23080199, 102236160, -2>>>>,
       <<<<1, 23534065, 136462883, 0>>, <<-1, 22711464, 110137344, -2>>>>,
       <<<<1, 23405817, 161816281, 0>>, <<-1, 22344757, 100880384, -2>>>>,
       <<<<1, 23278954, 177153220, 0>>, <<-1, 21980028, 57360384, -2>>>>,
       <<<<1, 23153462, 194894868, 0>>, <<-1, 21617279, 229134336, -2>>>>,
       <<<<1, 23029317, 46554188, 0>>, <<-1, 21256483, 160016384, -2>>>>,
       <<<<1, 22906491, 93400143, 0>>, <<-1, 20897603, 162576384, -2>>>>,
       <<<<1, 22784972, 190550238, 0>>, <<-1, 20540644, 76509184, -2>>>>,
       <<<<1, 22664735, 47782520, 0>>, <<-1, 20185569, 129867776, -2>>>>,
       <<<<1, 22545761, 38164103, 0>>, <<-1, 19832366, 256278528, -2>>>>,
       <<<<1, 22428028, 250047443, 0>>, <<-1, 19481011, 137420800, -2>>>>,
       <<<<1, 22311518, 44531603, 0>>, <<-1, 19131480, 215648256, -2>>>>,
       <<<<1, 22196212, 33965443, 0>>, <<-1, 18783762, 153587712, -2>>>>,
       <<<<1, 22082093, 196263391, 0>>, <<-1, 18437842, 189331456, -2>>>>,
       <<<<1, 21969140, 120905431, 0>>, <<-1, 18093689, 179959808, -2>>>>,
       <<<<1, 21857340, 266217536, 0>>, <<-1, 17751305, 82810880, -2>>>>,
       <<<<1, 21746668, 7906248, 0>>, <<-1, 17410641, 148574208, -2>>>>,
       <<<<1, 21637116, 65021322, 0>>, <<-1, 17071717, 40089600, -2>>>>,
       <<<<1, 21528658, 81036340, 0>>, <<-1, 33468964, 92729344, -3>>>>,
       <<<<1, 21421281, 186199307, 0>>, <<-1, 32797863, 85438464, -3>>>>,
       <<<<1, 21314973, 54073428, 0>>, <<-1, 32130115, 219164672, -3>>>>,
       <<<<1, 21209716, 78939226, 0>>, <<-1, 31465684, 82423808, -3>>>>,
       <<<<1, 21105492, 18217211, 0>>, <<-1, 30804514, 158855168, -3>>>>,
       <<<<1, 21002285, 171898033, 0>>, <<-1, 30146576, 76910592, -3>>>>,
       <<<<1, 20900085, 223870607, 0>>, <<-1, 29491861, 109645824, -3>>>>,
       <<<<1, 20798874, 740585, 0>>, <<-1, 28840312, 226562048, -3>>>>,
       <<<<1, 20698636, 1098027, 0>>, <<-1, 28191900, 215207936, -3>>>>,
       <<<<1, 20599362, 192273080, 0>>, <<-1, 27546626, 236097536, -3>>>>,
       <<<<1, 20501036, 228577282, 0>>, <<-1, 26904438, 136179712, -3>>>>,
       <<<<1, 20403644, 92568092, 0>>, <<-1, 26265302, 155725824, -3>>>>,
       <<<<1, 20307172, 162346722, 0>>, <<-1, 25629194, 105234432, -3>>>>,
       <<<<1, 20211609, 139318336, 0>>, <<-1, 24996091, 68431872, -3>>>>,
       <<<<1, 20116940, 251644708, 0>>, <<-1, 24365955, 207777792, -3>>>>,
       <<<<1, 20023159, 94440777, 0>>, <<-1, 23738793, 188178432, -3>>>>,
       <<<<1, 19930243, 121518480, 0>>, <<-1, 23114517, 79142912, -3>>>>,
       <<<<1, 19838187, 194377793, 0>>, <<-1, 22493143, 103034880, -3>>>>,
       <<<<1, 19746976, 35236305, 0>>, <<-1, 21874616, 264384512, -3>>>>,
       <<<<1, 19656602, 146275626, 0>>, <<-1, 21258949, 30539776, -3>>>>,
       <<<<1, 19567047, 168565675, 0>>, <<-1, 20646059, 209911808, -3>>>>,
       <<<<1, 19478310, 1357104, 0>>, <<-1, 20035990, 189333504, -3>>>>,
       <<<<1, 19390373, 123183605, 0>>, <<-1, 19428681, 10764288, -3>>>>,
       <<<<1, 19303225, 186465215, 0>>, <<-1, 18824095, 142188544, -3>>>>,
       <<<<1, 19216856, 59766205, 0>>, <<-1, 18222210, 86810624, -3>>>>,
       <<<<1, 19131258, 180947003, 0>>, <<-1, 17623029, 133636096, -3>>>>,
       <<<<1, 19046418, 195641526, 0>>, <<-1, 17026500, 167682048, -3>>>>,
       <<<<1, 18962329, 114049330, 0>>, <<-1, 32865243, 206274560, -4>>>>,
       <<<<1, 18878977, 231931035, 0>>, <<-1, 31682697, 104873984, -4>>>>,
       <<<<1, 18796356, 156059659, 0>>, <<-1, 30505347, 251215872, -4>>>>,
       <<<<1, 18714453, 42952041, 0>>, <<-1, 29333108, 249077760, -4>>>>,
       <<<<1, 18633265, 22511228, 0>>, <<-1, 28166034, 3104768, -4>>>>,
       <<<<1, 18552775, 80422633, 0>>, <<-1, 27003966, 120094720, -4>>>>,
       <<<<1, 18472976, 204217014, 0>>, <<-1, 25846891, 57851904, -4>>>>,
       <<<<1, 18393863, 196505789, 0>>, <<-1, 24694811, 61603840, -4>>>>,
       <<<<1, 18315426, 99597494, 0>>, <<-1, 23547668, 87556096, -4>>>>,
       <<<<1, 18237651, 88879578, 0>>, <<-1, 22405350, 226983936, -4>>>>,
       <<<<1, 18160537, 2580445, 0>>, <<-1, 21267917, 245489664, -4>>>>,
       <<<<1, 18084074, 70439500, 0>>, <<-1, 20135316, 225091584, -4>>>>,
       <<<<1, 18008247, 34666970, 0>>, <<-1, 19007391, 147152896, -4>>>>,
       <<<<1, 17933058, 149730609, 0>>, <<-1, 17884265, 140648448, -4>>>>,
       <<<<1, 17858493, 176436399, 0>>, <<-1, 33531590, 181534720, -5>>>>,
       <<<<1, 17784544, 256797619, 0>>, <<-1, 31303892, 175587328, -5>>>>,
       <<<<1, 17711205, 220897230, 0>>, <<-1, 29085390, 75825152, -5>>>>,
       <<<<1, 17638470, 53257505, 0>>, <<-1, 26876052, 1228800, -5>>>>,
       <<<<1, 17566327, 216176666, 0>>, <<-1, 24675715, 50511872, -5>>>>,
       <<<<1, 17494776, 63321809, 0>>, <<-1, 22484454, 131497984, -5>>>>,
       <<<<1, 17423801, 144708409, 0>>, <<-1, 20301988, 157646848, -5>>>>,
       <<<<1, 17353402, 257091551, 0>>, <<-1, 18128438, 68501504, -5>>>>,
       <<<<1, 17283570, 256780539, 0>>, <<-1, 31927304, 48988160, -6>>>>,
       <<<<1, 17214296, 204836633, 0>>, <<-1, 27614997, 38961152, -6>>>>,
       <<<<1, 17145578, 99416364, 0>>, <<-1, 23320108, 260145152, -6>>>>,
       <<<<1, 17077404, 231812240, 0>>, <<-1, 19042232, 212467712, -6>>>>,
       <<<<1, 17009772, 116436393, 0>>, <<-1, 29562802, 16318464, -7>>>>,
       <<<<1, 16942673, 58274473, 0>>, <<-1, 21074773, 229244928, -7>>>>,
       <<<<1, 16876098, 132805448, 0>>, <<-1, 25239612, 49020928, -8>>>>,
       <<<<1, 16810048, 102019477, 0>>, <<-1, 16793751, 153354240, -9>>>>,
       <<<<1, 33423871, 119994906, -1>>, <<1, 33488696, 76546048, -9>>>>,
       <<<<1, 33165772, 39971444, -1>>, <<1, 25019411, 87883776, -7>>>>,
       <<<<1, 32911627, 8493358, -1>>, <<1, 20769340, 79855616, -6>>>>,
       <<<<1, 32661347, 216968653, -1>>, <<1, 28965905, 76087296, -6>>>>,
       <<<<1, 32414848, 59839463, -1>>, <<1, 18550156, 235995136, -5>>>>,
       <<<<1, 32172039, 147567019, -1>>, <<1, 22586813, 114688, -5>>>>,
       <<<<1, 31932842, 43846811, -1>>, <<1, 26593332, 14188544, -5>>>>,
       <<<<1, 31697176, 51026357, -1>>, <<1, 30570158, 257392640, -5>>>>,
       <<<<1, 31464960, 157325910, -1>>, <<1, 17258894, 93896704, -4>>>>,
       <<<<1, 31236126, 91732888, -1>>, <<1, 19218270, 51191808, -4>>>>,
       <<<<1, 31010592, 192712963, -1>>, <<1, 21163480, 188219392, -4>>>>,
       <<<<1, 30788294, 117136590, -1>>, <<1, 23094680, 123191296, -4>>>>,
       <<<<1, 30569162, 173989533, -1>>, <<1, 25012067, 90832896, -4>>>>,
       <<<<1, 30353123, 241904845, -1>>, <<1, 26915892, 236740608, -4>>>>,
       <<<<1, 30140122, 44529922, -1>>, <<1, 28806267, 185425920, -4>>>>,
       <<<<1, 29930086, 221710445, -1>>, <<1, 30683443, 48701440, -4>>>>,
       <<<<1, 29722955, 224221188, -1>>, <<1, 32547607, 31350784, -4>>>>,
       <<<<1, 29518675, 62627724, -1>>, <<1, 17199442, 194068480, -3>>>>,
       <<<<1, 29317182, 250406719, -1>>, <<1, 18118744, 43167744, -3>>>>,
       <<<<1, 29118423, 98277057, -1>>, <<1, 19031788, 231354368, -3>>>>,
       <<<<1, 28922336, 210127400, -1>>, <<1, 19938682, 113594368, -3>>>>,
       <<<<1, 28728876, 99565100, -1>>, <<1, 20839475, 204673024, -3>>>>,
       <<<<1, 28537990, 130648203, -1>>, <<1, 21734246, 192577536, -3>>>>,
       <<<<1, 28349618, 18690122, -1>>, <<1, 22623122, 147976192, -3>>>>,
       <<<<1, 28163720, 99807102, -1>>, <<1, 23506130, 68743168, -3>>>>,
       <<<<1, 27980243, 23084450, -1>>, <<1, 24383374, 208048128, -3>>>>,
       <<<<1, 27799139, 265509031, -1>>, <<1, 25254927, 85651456, -3>>>>,
       <<<<1, 27620366, 252277643, -1>>, <<1, 26120853, 83263488, -3>>>>,
       <<<<1, 27443881, 11225895, -1>>, <<1, 26981216, 49823744, -3>>>>,
       <<<<1, 27269633, 60027601, -1>>, <<1, 27836113, 204210176, -3>>>>,
       <<<<1, 27097586, 81476635, -1>>, <<1, 28685589, 201445376, -3>>>>,
       <<<<1, 26927696, 96973200, -1>>, <<1, 29529724, 213696512, -3>>>>,
       <<<<1, 26759919, 43503151, -1>>, <<1, 30368605, 88629248, -3>>>>,
       <<<<1, 26594222, 245648245, -1>>, <<1, 31202259, 71745536, -3>>>>,
       <<<<1, 26430569, 233261112, -1>>, <<1, 32030747, 147841024, -3>>>>,
       <<<<1, 26268914, 258429670, -1>>, <<1, 32854172, 1544192, -3>>>>,
       <<<<1, 26109224, 251647901, -1>>, <<1, 16836289, 35633152, -2>>>>,
       <<<<1, 25951465, 265027708, -1>>, <<1, 17243008, 244568064, -2>>>>,
       <<<<1, 25795597, 180273934, -1>>, <<1, 17647289, 243691520, -2>>>>,
       <<<<1, 25641594, 170072059, -1>>, <<1, 18049139, 55300096, -2>>>>,
       <<<<1, 25489418, 213096968, -1>>, <<1, 18448598, 119752704, -2>>>>,
       <<<<1, 25339038, 140852821, -1>>, <<1, 18845694, 13402112, -2>>>>,
       <<<<1, 25190425, 99877472, -1>>, <<1, 19240445, 123955200, -2>>>>,
       <<<<1, 25043542, 65053481, -1>>, <<1, 19632896, 152348672, -2>>>>,
       <<<<1, 24898359, 131904941, -1>>, <<1, 20023073, 4415488, -2>>>>,
       <<<<1, 24754854, 127346114, -1>>, <<1, 20410982, 233576448, -2>>>>,
       <<<<1, 24612991, 35063383, -1>>, <<1, 20796671, 196030464, -2>>>>,
       <<<<1, 24472749, 198578956, -1>>, <<1, 21180142, 53469184, -2>>>> >>

\* the first 24 digits of the fraction of the double OFF of log,
\* 0x3fe6000000000000, whose other digits are 0
LogOff == 6291456

\* the reduction of x > 0 by the double of fraction digits off (and
\* exponent -1): <<i, k, z>> with x = z * 2^k, z in the interval of index i
\* of the 128 intervals that start at that double
Reduced(x, off) ==
    IF x[2] - T24 >= off
       THEN <<(x[2] - T24 - off) \div 131072 + 1, x[4] + 1,
              <<1, x[2], x[3], -1>> >>
       ELSE <<(x[2] - off) \div 131072 + 1, x[4],
              <<1, x[2], x[3], 0>> >>

\* log away from 1, for x = z * 2^k: r = z * invc - 1, w = k * Ln2hi + logc,
\* hi = w + r, r2 = r * r;
\*   lo = w - hi + r + kd * Ln2lo
\*   y = lo + r2 * A[0] + r * r2 * (A[1] + r * A[2] + r2 * (A[3] + r * A[4]))
\*       + hi
\* with the multiplications and additions fused as the library is compiled
LogFarSum(kd, r, r2, w, hi) ==
    FAdd(Fma(FMul(r, r2),
             Fma(Fma(r, LogA[5], LogA[4]), r2, Fma(r, LogA[3], LogA[2])),
             Fma(r2, LogA[1], Fma(kd, LogLn2Lo, FAdd(FSub(w, hi), r)))),
         hi)

LogFarHi(kd, r, w) == LogFarSum(kd, r, FMul(r, r), w, FAdd(r, w))

LogFarR(kd, r, logc) == LogFarHi(kd, r, Fma(kd, LogLn2Hi, logc))

LogFar(red) ==
    LogFarR(FromInt(red[2]), Fma(red[3], LogTable[red[1]][1], MinusOne),
            LogTable[red[1]][2])

\* the bounds of the arguments next to 1: 1 - 0x1p-4 <= x < 1 + 0x1.09p-4
LogNearLow == <<1, 31457280, 0, -1>>
LogNearHigh == <<1, 17862656, 0, 0>>

\* the double 0x1p27, which splits r in a high part of 26 digits and a rest
TwoTo27 == <<1, T24, 0, 27>>

\* log next to 1, for r = x - 1, r2 = r * r, r3 = r * r2: the polynomial
\*   B[1] + r * B[2] + r2 * B[3]
\*   + r3 * (B[4] + r * B[5] + r2 * B[6]
\*           + r3 * (B[7] + r * B[8] + r2 * B[9] + r3 * B[10]))
LogNearPoly(r, r2, r3) ==
    Fma(Fma(Fma(r3, LogB[11], Fma(r2, LogB[10], Fma(r, LogB[9], LogB[8]))),
            r3,
            Fma(r2, LogB[7], Fma(r, LogB[6], LogB[5]))),
        r3,
        Fma(r2, LogB[4], Fma(r, LogB[3], LogB[2])))

\* log next to 1: with rhi the high part of r, rlo = r - rhi,
\* hi = r + rhi * rhi * B[0],
\*   lo = r - hi + rhi * rhi * B[0] + B[0] * rlo * (rhi + r)
\*   y = hi + (lo + r3 * polynomial)
LogNearSum(r, r2, r3, rhi, rhi2, hi) ==
    FAdd(hi,
         Fma(LogNearPoly(r, r2, r3), r3,
             Fma(FMul(LogB[1], FSub(r, rhi)), FAdd(r, rhi),
                 Fma(rhi2, LogB[1], FSub(r, hi)))))

LogNearHi(r, r2, r3, rhi, rhi2) ==
    LogNearSum(r, r2, r3, rhi, rhi2, Fma(rhi2, LogB[1], r))

LogNearHigh2(r, r2, r3, rhi) == LogNearHi(r, r2, r3, rhi, FMul(rhi, rhi))

LogNearR2(r, r2) ==
    LogNearHigh2(r, r2, FMul(r, r2),
                 Fma(FNeg(TwoTo27), r, Fma(r, TwoTo27, r)))

LogNear(r) == LogNearR2(r, FMul(r, r))

\* the outcome of an expression that raises: the name of the exception, in
\* a tuple of its own length so that it is no float
ValueError == <<"ValueError">>
ZeroDivisionError == <<"ZeroDivisionError">>
IsRaised(v) == Len(v) = 1

\* math.log(x): it raises ValueError for x <= 0, and for x > 0 it is the log
\* of the C library (glibc 2.36, the variant for processors with fused
\* multiply-add), operation by operation
Ln(x) ==
    IF x = NaN THEN NaN
    ELSE IF IsZero(x) \/ x[1] = -1 THEN ValueError
    ELSE IF x = One THEN Zero
    ELSE IF ~FLess(x, LogNearLow) /\ FLess(x, LogNearHigh)
        THEN LogNear(FSub(x, One))
    ELSE LogFar(Reduced(x, LogOff))

\* math.log(10), the denominator of math.log(x, 10)
Ln10 == Ln(FromInt(10))

\* math.log(x, 10): math.log(x), which raises for x <= 0, divided by
\* math.log(10)
Log10Of(num) == IF IsRaised(num) THEN num ELSE FDiv(num, Ln10)

Log10(x) == Log10Of(Ln(x))

\* ------------------------------------------------------------------------
\* the operator ** of floats
\* ------------------------------------------------------------------------

\* the constants of the logarithm of pow: log(2) in two parts
PowLn2Hi == <<1, 23258159, 251279360, -1>>

PowLn2Lo == <<1, 32454009, 63399728, -45>>

\* the coefficients A[0] .. A[6] of the polynomial of the logarithm of pow
PowA ==
    << <<-1, 16777216, 0, -1>>,
       <<-1, 22369621, 89478496, -1>>,
       <<1, 16777216, 6, -1>>,
       <<1, 26843545, 156849486, -1>>,
       <<-1, 22369621, 86615162, -1>>,
       <<-1, 19174841, 189285865, 0>>,
       <<1, 16777912, 187056067, 0>> >>

\* the table of the logarithm of pow: <<invc, logc, logctail>> for each of
\* the 128 intervals of the significand
PowLogTable ==
    << <<<<1, 23724032, 0, 0>>, <<-1, 23250991, 45729792, -2>>, <<1, 28000834, 137844352, -48>>>>,
       <<<<1, 23592960, 0, 0>>, <<-1, 22879195, 257427456, -2>>, <<-1, 30036109, 148961056, -46>>>>,
       <<<<1, 23461888, 0, 0>>, <<-1, 22505329, 121985024, -2>>, <<-1, 20326989, 95834221, -45>>>>,
       <<<<1, 23330816, 0, 0>>, <<-1, 22129368, 120453120, -2>>, <<-1, 23613001, 246441941, -49>>>>,
       <<<<1, 23199744, 0, 0>>, <<-1, 21751289, 91715584, -2>>, <<-1, 21083801, 53034720, -47>>>>,
       <<<<1, 23068672, 0, 0>>, <<-1, 21371068, 35414016, -2>>, <<1, 20808436, 139232460, -46>>>>,
       <<<<1, 22937600, 0, 0>>, <<-1, 20988680, 109488128, -2>>, <<1, 29634366, 226626362, -50>>>>,
       <<<<1, 22806528, 0, 0>>, <<-1, 20604101, 90785792, -2>>, <<1, 17505384, 106009696, -45>>>>,
       <<<<1, 22675456, 0, 0>>, <<-1, 20217305, 177766400, -2>>, <<1, 22385885, 80052370, -45>>>>,
       <<<<1, 22544384, 0, 0>>, <<-1, 19828267, 182525952, -2>>, <<1, 23572969, 162999256, -45>>>>,
       <<<<1, 22413312, 0, 0>>, <<-1, 19436961, 64915456, -2>>, <<1, 22847819, 114274367, -46>>>>,
       <<<<1, 22413312, 0, 0>>, <<-1, 19436961, 64915456, -2>>, <<1, 22847819, 114274367, -46>>>>,
       <<<<1, 22282240, 0, 0>>, <<-1, 19043359, 198146048, -2>>, <<-1, 23437890, 139713142, -46>>>>,
       <<<<1, 22151168, 0, 0>>, <<-1, 18647436, 23697408, -2>>, <<-1, 33225670, 149378052, -46>>>>,
       <<<<1, 22020096, 0, 0>>, <<-1, 18249162, 195799040, -2>>, <<1, 32636003, 58894576, -46>>>>,
       <<<<1, 21889024, 0, 0>>, <<-1, 17848511, 162416640, -2>>, <<-1, 23759951, 218454630, -45>>>>,
       <<<<1, 21757952, 0, 0>>, <<-1, 17445454, 41127936, -2>>, <<-1, 29802215, 250872590, -47>>>>,
       <<<<1, 21626880, 0, 0>>, <<-1, 17039961, 78958592, -2>>, <<-1, 17001353, 250883455, -48>>>>,
       <<<<1, 21626880, 0, 0>>, <<-1, 17039961, 78958592, -2>>, <<-1, 17001353, 250883455, -48>>>>,
       <<<<1, 21495808, 0, 0>>, <<-1, 33264006, 224280576, -3>>, <<1, 30765738, 194591879, -47>>>>,
       <<<<1, 21364736, 0, 0>>, <<-1, 32443100, 198991872, -3>>, <<1, 28470137, 210153252, -45>>>>,
       <<<<1, 21233664, 0, 0>>, <<-1, 31617142, 237694976, -3>>, <<-1, 24311029, 71302928, -46>>>>,
       <<<<1, 21102592, 0, 0>>, <<-1, 30786070, 189775872, -3>>, <<1, 18589979, 197814299, -45>>>>,
       <<<<1, 20971520, 0, 0>>, <<-1, 29949820, 127574016, -3>>, <<1, 24614134, 144671796, -45>>>>,
       <<<<1, 20971520, 0, 0>>, <<-1, 29949820, 127574016, -3>>, <<1, 24614134, 144671796, -45>>>>,
       <<<<1, 20840448, 0, 0>>, <<-1, 29108327, 70094848, -3>>, <<1, 26536707, 25933711, -46>>>>,
       <<<<1, 20709376, 0, 0>>, <<-1, 28261524, 243318784, -3>>, <<1, 27584051, 265130086, -52>>>>,
       <<<<1, 20578304, 0, 0>>, <<-1, 27409345, 266514432, -3>>, <<-1, 22595149, 205963754, -45>>>>,
       <<<<1, 20578304, 0, 0>>, <<-1, 27409345, 266514432, -3>>, <<-1, 22595149, 205963754, -45>>>>,
       <<<<1, 20447232, 0, 0>>, <<-1, 26551721, 217337856, -3>>, <<-1, 28122512, 79811811, -45>>>>,
       <<<<1, 20316160, 0, 0>>, <<-1, 25688582, 86036480, -3>>, <<1, 29088759, 266074633, -45>>>>,
       <<<<1, 20185088, 0, 0>>, <<-1, 24819856, 34660352, -3>>, <<1, 29210887, 39012952, -45>>>>,
       <<<<1, 20185088, 0, 0>>, <<-1, 24819856, 34660352, -3>>, <<1, 29210887, 39012952, -45>>>>,
       <<<<1, 20054016, 0, 0>>, <<-1, 23945470, 119132160, -3>>, <<-1, 17712810, 62055014, -46>>>>,
       <<<<1, 19922944, 0, 0>>, <<-1, 23065351, 10981376, -3>>, <<-1, 32105529, 252727353, -46>>>>,
       <<<<1, 19922944, 0, 0>>, <<-1, 23065351, 10981376, -3>>, <<-1, 32105529, 252727353, -46>>>>,
       <<<<1, 19791872, 0, 0>>, <<-1, 22179422, 60928000, -3>>, <<-1, 17688761, 482191, -45>>>>,
       <<<<1, 19660800, 0, 0>>, <<-1, 21287606, 214663168, -3>>, <<1, 24169494, 20281404, -46>>>>,
       <<<<1, 19660800, 0, 0>>, <<-1, 21287606, 214663168, -3>>, <<1, 24169494, 20281404, -46>>>>,
       <<<<1, 19529728, 0, 0>>, <<-1, 20389826, 2002944, -3>>, <<1, 18319460, 220681274, -48>>>>,
       <<<<1, 19398656, 0, 0>>, <<-1, 19485999, 136310784, -3>>, <<-1, 21549825, 124896264, -45>>>>,
       <<<<1, 19267584, 0, 0>>, <<-1, 18576045, 86990848, -3>>, <<-1, 31984193, 135373718, -45>>>>,
       <<<<1, 19267584, 0, 0>>, <<-1, 18576045, 86990848, -3>>, <<-1, 31984193, 135373718, -45>>>>,
       <<<<1, 19136512, 0, 0>>, <<-1, 17659879, 214994944, -3>>, <<1, 27695464, 149445620, -47>>>>,
       <<<<1, 19136512, 0, 0>>, <<-1, 17659879, 214994944, -3>>, <<1, 27695464, 149445620, -47>>>>,
       <<<<1, 19005440, 0, 0>>, <<-1, 33474835, 31186944, -4>>, <<-1, 22500677, 212022258, -45>>>>,
       <<<<1, 18874368, 0, 0>>, <<-1, 31617142, 237699072, -4>>, <<1, 27476674, 183500860, -45>>>>,
       <<<<1, 18874368, 0, 0>>, <<-1, 31617142, 237699072, -4>>, <<1, 27476674, 183500860, -45>>>>,
       <<<<1, 18743296, 0, 0>>, <<-1, 29746504, 257671168, -4>>, <<-1, 30459253, 140492294, -46>>>>,
       <<<<1, 18612224, 0, 0>>, <<-1, 27862739, 172679168, -4>>, <<1, 22254430, 140225224, -45>>>>,
       <<<<1, 18612224, 0, 0>>, <<-1, 27862739, 172679168, -4>>, <<1, 22254430, 140225224, -45>>>>,
       <<<<1, 18481152, 0, 0>>, <<-1, 25965661, 103915520, -4>>, <<1, 20431508, 221206120, -46>>>>,
       <<<<1, 18481152, 0, 0>>, <<-1, 25965661, 103915520, -4>>, <<1, 20431508, 221206120, -46>>>>,
       <<<<1, 18350080, 0, 0>>, <<-1, 24055080, 182804480, -4>>, <<-1, 23688060, 154366938, -45>>>>,
       <<<<1, 18219008, 0, 0>>, <<-1, 22130803, 252059648, -4>>, <<1, 32515510, 29777495, -46>>>>,
       <<<<1, 18219008, 0, 0>>, <<-1, 22130803, 252059648, -4>>, <<1, 32515510, 29777495, -46>>>>,
       <<<<1, 18087936, 0, 0>>, <<-1, 20192633, 102490112, -4>>, <<1, 29748652, 217650143, -45>>>>,
       <<<<1, 18087936, 0, 0>>, <<-1, 20192633, 102490112, -4>>, <<1, 29748652, 217650143, -45>>>>,
       <<<<1, 17956864, 0, 0>>, <<-1, 18240366, 245596160, -4>>, <<1, 21480935, 110076681, -46>>>>,
       <<<<1, 17825792, 0, 0>>, <<-1, 32547596, 1146880, -5>>, <<1, 30775784, 53907089, -45>>>>,
       <<<<1, 17825792, 0, 0>>, <<-1, 32547596, 1146880, -5>>, <<1, 30775784, 53907089, -45>>>>,
       <<<<1, 17694720, 0, 0>>, <<-1, 28585431, 18448384, -5>>, <<1, 29894574, 97939532, -46>>>>,
       <<<<1, 17694720, 0, 0>>, <<-1, 28585431, 18448384, -5>>, <<1, 29894574, 97939532, -46>>>>,
       <<<<1, 17563648, 0, 0>>, <<-1, 24593807, 103989248, -5>>, <<-1, 30393443, 83010030, -45>>>>,
       <<<<1, 17563648, 0, 0>>, <<-1, 24593807, 103989248, -5>>, <<-1, 30393443, 83010030, -45>>>>,
       <<<<1, 17432576, 0, 0>>, <<-1, 20572283, 167690240, -5>>, <<1, 22031231, 86441642, -48>>>>,
       <<<<1, 17432576, 0, 0>>, <<-1, 20572283, 167690240, -5>>, <<1, 22031231, 86441642, -48>>>>,
       <<<<1, 17301504, 0, 0>>, <<-1, 33040816, 242745344, -6>>, <<-1, 26739303, 209586660, -45>>>>,
       <<<<1, 17301504, 0, 0>>, <<-1, 33040816, 242745344, -6>>, <<-1, 26739303, 209586660, -45>>>>,
       <<<<1, 17170432, 0, 0>>, <<-1, 24875440, 131432448, -6>>, <<-1, 25744713, 66758201, -45>>>>,
       <<<<1, 17039360, 0, 0>>, <<-1, 33294987, 16515072, -7>>, <<-1, 32630735, 114534044, -50>>>>,
       <<<<1, 17039360, 0, 0>>, <<-1, 33294987, 16515072, -7>>, <<-1, 32630735, 114534044, -50>>>>,
       <<<<1, 16908288, 0, 0>>, <<-1, 33424038, 185597952, -8>>, <<-1, 27141104, 232407268, -46>>>>,
       <<<<1, 16908288, 0, 0>>, <<-1, 33424038, 185597952, -8>>, <<-1, 27141104, 232407268, -46>>>>,
       <<<<1, 16777216, 0, 0>>, <<1, 0, 0, 0>>, <<1, 0, 0, 0>>>>,
       <<<<1, 16777216, 0, 0>>, <<1, 0, 0, 0>>, <<1, 0, 0, 0>>>>,
       <<<<1, 33292288, 0, -1>>, <<1, 16843095, 92864512, -7>>, <<-1, 17594041, 161295336, -46>>>>,
       <<<<1, 33030144, 0, -1>>, <<1, 16909669, 143884288, -6>>, <<-1, 20825520, 115537874, -45>>>>,
       <<<<1, 32768000, 0, -1>>, <<1, 25465426, 147390464, -6>>, <<-1, 27921315, 39455796, -45>>>>,
       <<<<1, 32505856, 0, -1>>, <<1, 17044952, 166150144, -5>>, <<1, 17898501, 217175891, -47>>>>,
       <<<<1, 32243712, 0, -1>>, <<1, 21392109, 70123520, -5>>, <<-1, 29452087, 96337192, -45>>>>,
       <<<<1, 31981568, 0, -1>>, <<1, 25774753, 77578240, -5>>, <<-1, 26712413, 5908093, -46>>>>,
       <<<<1, 31719424, 0, -1>>, <<1, 30193468, 232636416, -5>>, <<-1, 27692836, 131606535, -46>>>>,
       <<<<1, 31588352, 0, -1>>, <<1, 32416540, 442368, -5>>, <<-1, 31527908, 264846203, -47>>>>,
       <<<<1, 31326208, 0, -1>>, <<1, 18445245, 21389312, -4>>, <<-1, 22226389, 101555867, -45>>>>,
       <<<<1, 31064064, 0, -1>>, <<1, 20701018, 131194880, -4>>, <<1, 30180842, 98258647, -45>>>>,
       <<<<1, 30801920, 0, -1>>, <<1, 22975908, 228040704, -4>>, <<-1, 29790307, 207428894, -45>>>>,
       <<<<1, 30670848, 0, -1>>, <<1, 24120624, 183156736, -4>>, <<1, 29485274, 161344818, -49>>>>,
       <<<<1, 30408704, 0, -1>>, <<1, 26424805, 223952896, -4>>, <<1, 19994051, 180176858, -45>>>>,
       <<<<1, 30146560, 0, -1>>, <<1, 28748936, 229466112, -4>>, <<-1, 20514818, 200763621, -46>>>>,
       <<<<1, 30015488, 0, -1>>, <<1, 29918592, 29114368, -4>>, <<1, 23358748, 106605779, -45>>>>,
       <<<<1, 29753344, 0, -1>>, <<1, 32273304, 50995200, -4>>, <<-1, 31196810, 266749408, -45>>>>,
       <<<<1, 29622272, 0, -1>>, <<1, 33458451, 165404672, -4>>, <<-1, 22236516, 262212349, -45>>>>,
       <<<<1, 29360128, 0, -1>>, <<1, 17922280, 36167680, -3>>, <<1, 18806668, 237832178, -45>>>>,
       <<<<1, 29229056, 0, -1>>, <<1, 18522807, 237236224, -3>>, <<1, 30046436, 70818100, -45>>>>,
       <<<<1, 28966912, 0, -1>>, <<1, 19731984, 210141184, -3>>, <<1, 20567756, 193049761, -47>>>>,
       <<<<1, 28835840, 0, -1>>, <<1, 20340683, 1413120, -3>>, <<1, 23263874, 55276169, -51>>>>,
       <<<<1, 28573696, 0, -1>>, <<1, 21566424, 53719040, -3>>, <<1, 22558613, 83736184, -45>>>>,
       <<<<1, 28442624, 0, -1>>, <<1, 22183518, 77705216, -3>>, <<1, 23281294, 90799559, -45>>>>,
       <<<<1, 28180480, 0, -1>>, <<1, 23426283, 244060160, -3>>, <<1, 27064498, 205270648, -46>>>>,
       <<<<1, 28049408, 0, -1>>, <<1, 24052008, 192245760, -3>>, <<-1, 22091998, 94118369, -45>>>>,
       <<<<1, 27918336, 0, -1>>, <<1, 24680664, 88363008, -3>>, <<-1, 29778183, 9519877, -46>>>>,
       <<<<1, 27656192, 0, -1>>, <<1, 25946878, 188284928, -3>>, <<-1, 24368458, 183053521, -47>>>>,
       <<<<1, 27525120, 0, -1>>, <<1, 26584493, 217513984, -3>>, <<1, 25109125, 144768879, -47>>>>,
       <<<<1, 27262976, 0, -1>>, <<1, 27868883, 210427904, -3>>, <<-1, 25633845, 5644649, -45>>>>,
       <<<<1, 27131904, 0, -1>>, <<1, 28515717, 123457536, -3>>, <<-1, 29579476, 246210986, -47>>>>,
       <<<<1, 27000832, 0, -1>>, <<1, 29165683, 138141696, -3>>, <<-1, 30719045, 156504758, -45>>>>,
       <<<<1, 26869760, 0, -1>>, <<1, 29818812, 116396032, -3>>, <<-1, 18794284, 93727698, -48>>>>,
       <<<<1, 26607616, 0, -1>>, <<1, 31134683, 13930496, -3>>, <<-1, 28308143, 118861877, -45>>>>,
       <<<<1, 26476544, 0, -1>>, <<1, 31797487, 266801152, -3>>, <<1, 18948726, 4322352, -51>>>>,
       <<<<1, 26345472, 0, -1>>, <<1, 32463582, 81592320, -3>>, <<-1, 27398486, 96177681, -51>>>>,
       <<<<1, 26214400, 0, -1>>, <<1, 33132998, 213102592, -3>>, <<1, 29146828, 168615728, -46>>>>,
       <<<<1, 25952256, 0, -1>>, <<1, 17240966, 5068800, -2>>, <<1, 25808305, 116215441, -48>>>>,
       <<<<1, 25821184, 0, -1>>, <<1, 17580758, 123822080, -2>>, <<1, 24217777, 104655593, -45>>>>,
       <<<<1, 25690112, 0, -1>>, <<1, 17922280, 36169728, -2>>, <<-1, 29495526, 61206556, -45>>>>,
       <<<<1, 25559040, 0, -1>>, <<1, 18265548, 195885056, -2>>, <<1, 28945631, 128259713, -45>>>>,
       <<<<1, 25427968, 0, -1>>, <<1, 18610582, 56256512, -2>>, <<1, 30043861, 21478839, -45>>>>,
       <<<<1, 25296896, 0, -1>>, <<1, 18957398, 219068416, -2>>, <<1, 27819499, 172407530, -47>>>>,
       <<<<1, 25034752, 0, -1>>, <<1, 19656455, 215781376, -2>>, <<1, 27905956, 173016308, -45>>>>,
       <<<<1, 24903680, 0, -1>>, <<1, 20008734, 30629888, -2>>, <<-1, 26093485, 52509880, -45>>>>,
       <<<<1, 24772608, 0, -1>>, <<1, 20362871, 113119232, -2>>, <<1, 18279643, 15824840, -46>>>>,
       <<<<1, 24641536, 0, -1>>, <<1, 20718887, 120795136, -2>>, <<1, 25408843, 101104988, -46>>>>,
       <<<<1, 24510464, 0, -1>>, <<1, 21076802, 64350208, -2>>, <<1, 26100590, 210821277, -47>>>>,
       <<<<1, 24379392, 0, -1>>, <<1, 21436636, 41011200, -2>>, <<-1, 32668896, 157800053, -45>>>>,
       <<<<1, 24248320, 0, -1>>, <<1, 21798409, 236400640, -2>>, <<-1, 31590545, 185260196, -45>>>>,
       <<<<1, 24117248, 0, -1>>, <<1, 22162144, 121151488, -2>>, <<1, 32237320, 23381849, -45>>>>,
       <<<<1, 23986176, 0, -1>>, <<1, 22527861, 63492096, -2>>, <<1, 33218270, 240992495, -46>>>>,
       <<<<1, 23855104, 0, -1>>, <<1, 22895581, 257515520, -2>>, <<-1, 27308704, 144991708, -47>>>> >>

\* the constants of the exponential of pow: 128 / log(2), the shift
\* 0x1.8p52 that rounds to an integer, and -log(2) / 128 in two parts
ExpInvLn2N == <<1, 24204406, 86737662, 7>>

ExpShift == <<1, 25165824, 0, 52>>

ExpNegLn2HiN == <<-1, 23258159, 251265024, -8>>

ExpNegLn2LoN == <<-1, 30374315, 211696442, -47>>

\* the coefficients C2 .. C5 of the polynomial of the exponential of pow
ExpC ==
    << <<1, 33554431, 268434877, -2>>,
       <<1, 22369621, 89478204, -3>>,
       <<1, 22369628, 253176721, -5>>,
       <<1, 17895702, 128241687, -7>> >>

\* the table of the exponential of pow: <<tail, scale>> for j = 0 .. 127,
\* scale the double near 2^(j / 128) and tail the rest of it
ExpTable ==
    << <<<<1, 0, 0, 0>>, <<1, 16777216, 0, 0>>>>,
       <<<<1, 28554481, 176734062, -54>>, <<1, 16868314, 167457589, 0>>>>,
       <<<<-1, 18219321, 215538781, -56>>, <<1, 16959907, 242712673, 0>>>>,
       <<<<-1, 17164193, 8873681, -54>>, <<1, 17051998, 141459333, 0>>>>,
       <<<<1, 30221603, 90699283, -55>>, <<1, 17144589, 51742068, 0>>>>,
       <<<<-1, 29157378, 66686714, -55>>, <<1, 17237682, 165541598, 0>>>>,
       <<<<1, 17790182, 31901793, -57>>, <<1, 17331281, 141925320, 0>>>>,
       <<<<1, 17448517, 187945881, -54>>, <<1, 17425388, 180810627, 0>>>>,
       <<<<1, 24750693, 226720621, -54>>, <<1, 17520006, 217680143, 0>>>>,
       <<<<1, 32199081, 50196476, -55>>, <<1, 17615138, 192038903, 0>>>>,
       <<<<1, 32236503, 3120337, -60>>, <<1, 17710787, 47436194, 0>>>>,
       <<<<-1, 27276104, 160460299, -57>>, <<1, 17806954, 268358427, 0>>>>,
       <<<<-1, 22373666, 170900750, -54>>, <<1, 17903645, 1203025, 0>>>>,
       <<<<-1, 17305336, 206498389, -58>>, <<1, 18000860, 7090636, 0>>>>,
       <<<<-1, 18649659, 165016598, -54>>, <<1, 18098602, 245968352, 0>>>>,
       <<<<1, 17645118, 157046191, -55>>, <<1, 18196876, 145067601, 0>>>>,
       <<<<-1, 16888158, 178623304, -55>>, <<1, 18295683, 209539451, 0>>>>,
       <<<<-1, 32636677, 98447933, -55>>, <<1, 18395027, 143429098, 0>>>>,
       <<<<1, 28874947, 252924863, -55>>, <<1, 18494910, 191875957, 0>>>>,
       <<<<-1, 23960007, 101837606, -54>>, <<1, 18595336, 67394772, 0>>>>,
       <<<<1, 28233587, 238694240, -54>>, <<1, 18696307, 23640490, 0>>>>,
       <<<<-1, 33454124, 193345693, -55>>, <<1, 18797826, 50125085, 0>>>>,
       <<<<1, 27718676, 78037901, -55>>, <<1, 18899896, 140676310, 0>>>>,
       <<<<1, 17277019, 14943357, -55>>, <<1, 19002521, 25025686, 0>>>>,
       <<<<1, 23654366, 61384852, -54>>, <<1, 19105702, 242573880, 0>>>>,
       <<<<1, 24502671, 41175165, -55>>, <<1, 19209444, 263366207, 0>>>>,
       <<<<1, 17068729, 136308722, -55>>, <<1, 19313750, 98729181, 0>>>>,
       <<<<-1, 23824307, 259065950, -54>>, <<1, 19418622, 32859009, 0>>>>,
       <<<<1, 19889686, 218737457, -55>>, <<1, 19524063, 85974753, 0>>>>,
       <<<<-1, 30546353, 175095802, -60>>, <<1, 19630077, 14342544, 0>>>>,
       <<<<1, 28538919, 34343604, -55>>, <<1, 19736666, 115606283, 0>>>>,
       <<<<1, 31541544, 164547471, -57>>, <<1, 19843834, 155070294, 0>>>>,
       <<<<1, 20240212, 229682102, -55>>, <<1, 19951584, 171030293, 0>>>>,
       <<<<1, 23339038, 44856396, -55>>, <<1, 20059919, 206362673, 0>>>>,
       <<<<1, 33411989, 231995466, -55>>, <<1, 20168843, 40113919, 0>>>>,
       <<<<-1, 23738371, 193878788, -55>>, <<1, 20278357, 261267441, 0>>>>,
       <<<<-1, 19181276, 206262376, -54>>, <<1, 20388467, 121285067, 0>>>>,
       <<<<-1, 26247041, 189869454, -54>>, <<1, 20499174, 218486886, 0>>>>,
       <<<<-1, 18685571, 244594386, -56>>, <<1, 20610483, 82157559, 0>>>>,
       <<<<-1, 26317211, 63838997, -54>>, <<1, 20722396, 51620069, 0>>>>,
       <<<<1, 22672522, 120212589, -55>>, <<1, 20834916, 202519586, 0>>>>,
       <<<<-1, 19998215, 170420618, -54>>, <<1, 20948048, 78413852, 0>>>>,
       <<<<-1, 25852148, 135760219, -58>>, <<1, 21061794, 32976426, 0>>>>,
       <<<<-1, 29542838, 122264091, -56>>, <<1, 21176157, 156280983, 0>>>>,
       <<<<1, 20332246, 12758033, -59>>, <<1, 21291142, 6392109, 0>>>>,
       <<<<1, 23486611, 184968431, -54>>, <<1, 21406750, 220004439, 0>>>>,
       <<<<1, 32296477, 178324345, -57>>, <<1, 21522987, 96550096, 0>>>>,
       <<<<1, 20969699, 252645936, -54>>, <<1, 21639855, 14144478, 0>>>>,
       <<<<1, 23661803, 192589744, -56>>, <<1, 21757357, 87435815, 0>>>>,
       <<<<1, 20044766, 190111863, -54>>, <<1, 21875497, 167632141, 0>>>>,
       <<<<-1, 33112896, 7447438, -55>>, <<1, 21994279, 110963879, 0>>>>,
       <<<<-1, 25029837, 211002185, -55>>, <<1, 22113706, 47146562, 0>>>>,
       <<<<-1, 26078315, 219101279, -56>>, <<1, 22233781, 110972802, 0>>>>,
       <<<<-1, 23143534, 209411318, -55>>, <<1, 22354508, 173904399, 0>>>>,
       <<<<1, 20140113, 150853518, -54>>, <<1, 22475891, 112535514, 0>>>>,
       <<<<1, 28937074, 260741893, -56>>, <<1, 22597933, 77055997, 0>>>>,
       <<<<1, 17186334, 35410953, -54>>, <<1, 22720637, 222843945, 0>>>>,
       <<<<1, 21788757, 1689322, -60>>, <<1, 22844008, 173622967, 0>>>>,
       <<<<1, 21180002, 191152181, -54>>, <<1, 22968049, 95232328, 0>>>>,
       <<<<-1, 30295206, 26834591, -55>>, <<1, 23092763, 158784521, 0>>>>,
       <<<<-1, 29572179, 200232360, -55>>, <<1, 23218155, 3822981, 0>>>>,
       <<<<-1, 21313416, 153872814, -55>>, <<1, 23344227, 80528160, 0>>>>,
       <<<<-1, 20770263, 139876440, -54>>, <<1, 23470984, 39133733, 0>>>>,
       <<<<1, 24185512, 8264036, -58>>, <<1, 23598429, 72132979, 0>>>>,
       <<<<-1, 20659963, 257827368, -54>>, <<1, 23726566, 109001677, 0>>>>,
       <<<<-1, 27339480, 120895874, -57>>, <<1, 23855399, 84662975, 0>>>>,
       <<<<-1, 20348667, 141404654, -57>>, <<1, 23984931, 207952431, 0>>>>,
       <<<<-1, 17679317, 81823825, -55>>, <<1, 24115167, 156341380, 0>>>>,
       <<<<-1, 25294407, 240795343, -56>>, <<1, 24246110, 149708660, 0>>>>,
       <<<<-1, 24044716, 9141680, -55>>, <<1, 24377764, 145064308, 0>>>>,
       <<<<-1, 23171873, 240510602, -55>>, <<1, 24510133, 105015241, 0>>>>,
       <<<<1, 17419445, 235525331, -54>>, <<1, 24643220, 266231103, 0>>>>,
       <<<<-1, 28519883, 156083485, -56>>, <<1, 24777031, 65732999, 0>>>>,
       <<<<1, 21942229, 73908331, -54>>, <<1, 24911568, 19972402, 0>>>>,
       <<<<1, 22986266, 198601813, -57>>, <<1, 25046835, 114249314, 0>>>>,
       <<<<-1, 25828434, 263442242, -55>>, <<1, 25182837, 71178770, 0>>>>,
       <<<<-1, 20355951, 20657972, -54>>, <<1, 25319577, 156028435, 0>>>>,
       <<<<-1, 17164355, 169475870, -55>>, <<1, 25457060, 103008173, 0>>>>,
       <<<<-1, 21841165, 141711214, -54>>, <<1, 25595289, 189043437, 0>>>>,
       <<<<1, 17487477, 185502208, -54>>, <<1, 25734269, 160065177, 0>>>>,
       <<<<1, 31159036, 32565940, -55>>, <<1, 25874004, 36348123, 0>>>>,
       <<<<-1, 22767113, 214296575, -57>>, <<1, 26014497, 112542860, 0>>>>,
       <<<<1, 29321269, 166944580, -56>>, <<1, 26155753, 152401718, 0>>>>,
       <<<<-1, 19960314, 119422339, -54>>, <<1, 26297776, 194117574, 0>>>>,
       <<<<-1, 31103880, 191634985, -58>>, <<1, 26440571, 13485541, 0>>>>,
       <<<<-1, 29507479, 210811225, -57>>, <<1, 26584140, 197677583, 0>>>>,
       <<<<-1, 19149874, 49609130, -54>>, <<1, 26728489, 266227280, 0>>>>,
       <<<<-1, 22849229, 124161611, -55>>, <<1, 26873623, 13240250, 0>>>>,
       <<<<1, 18546626, 194104871, -56>>, <<1, 27019544, 44298384, 0>>>>,
       <<<<1, 31269726, 17462203, -57>>, <<1, 27166257, 165880611, 0>>>>,
       <<<<-1, 24924226, 39985763, -55>>, <<1, 27313767, 190702949, 0>>>>,
       <<<<1, 28428398, 65155541, -55>>, <<1, 27462078, 206187827, 0>>>>,
       <<<<-1, 18595101, 62700309, -54>>, <<1, 27611195, 37627229, 0>>>>,
       <<<<1, 17613593, 216936914, -54>>, <<1, 27761121, 53523288, 0>>>>,
       <<<<1, 21403718, 242440883, -55>>, <<1, 27911861, 91880895, 0>>>>,
       <<<<-1, 19791065, 126786996, -55>>, <<1, 28063419, 265548666, 0>>>>,
       <<<<1, 29468537, 46871431, -55>>, <<1, 28215801, 156947373, 0>>>>,
       <<<<-1, 17283316, 181524986, -54>>, <<1, 28369010, 160282214, 0>>>>,
       <<<<-1, 22822293, 115125946, -58>>, <<1, 28523051, 139400699, 0>>>>,
       <<<<-1, 17449187, 229045824, -54>>, <<1, 28677928, 233134394, 0>>>>,
       <<<<-1, 26046275, 145593140, -57>>, <<1, 28833647, 50028103, 0>>>>,
       <<<<-1, 18804262, 190351925, -54>>, <<1, 28990211, 10552906, 0>>>>,
       <<<<1, 22019440, 174054861, -56>>, <<1, 29147625, 4964818, 0>>>>,
       <<<<-1, 18603967, 177379500, -54>>, <<1, 29305893, 198647305, 0>>>>,
       <<<<1, 20376291, 11472051, -56>>, <<1, 29465021, 226841244, 0>>>>,
       <<<<1, 32387877, 211811732, -55>>, <<1, 29625013, 268423290, 0>>>>,
       <<<<1, 21891325, 17389996, -55>>, <<1, 29785874, 240636235, 0>>>>,
       <<<<1, 20765427, 139336295, -57>>, <<1, 29947609, 67561397, 0>>>>,
       <<<<1, 24556230, 210901352, -57>>, <<1, 30110221, 217026665, 0>>>>,
       <<<<-1, 17342856, 63747538, -55>>, <<1, 30273717, 90031098, 0>>>>,
       <<<<-1, 33215955, 268434031, -55>>, <<1, 30438100, 168266108, 0>>>>,
       <<<<-1, 16833251, 141928777, -54>>, <<1, 30603376, 135105010, 0>>>>,
       <<<<1, 21641306, 104662951, -56>>, <<1, 30769549, 217818247, 0>>>>,
       <<<<-1, 19470818, 4203023, -55>>, <<1, 30936625, 113869720, 0>>>>,
       <<<<1, 31827213, 96572076, -55>>, <<1, 31104608, 64696965, 0>>>>,
       <<<<1, 21210522, 201419595, -55>>, <<1, 31273503, 50443360, 0>>>>,
       <<<<-1, 19747344, 129252895, -55>>, <<1, 31443315, 58432351, 0>>>>,
       <<<<-1, 26389395, 189205961, -55>>, <<1, 31614049, 83206441, 0>>>>,
       <<<<1, 21717062, 3836115, -56>>, <<1, 31785710, 126566390, 0>>>>,
       <<<<1, 20733637, 27095665, -55>>, <<1, 31958303, 197610627, 0>>>>,
       <<<<-1, 33517864, 265523696, -55>>, <<1, 32131834, 44339418, 0>>>>,
       <<<<-1, 31123854, 35878013, -55>>, <<1, 32306306, 227436529, 0>>>>,
       <<<<1, 32259012, 27926536, -55>>, <<1, 32481726, 241261095, 0>>>>,
       <<<<1, 21150028, 61467442, -55>>, <<1, 32658099, 124500631, 0>>>>,
       <<<<1, 27675283, 30508526, -55>>, <<1, 32835429, 191776064, 0>>>>,
       <<<<-1, 31685550, 71033837, -55>>, <<1, 33013722, 228376084, 0>>>>,
       <<<<1, 24679348, 227659165, -56>>, <<1, 33192984, 27168984, 0>>>>,
       <<<<1, 19946516, 23121033, -58>>, <<1, 33373218, 193950193, 0>>>> >>

\* the first 24 digits of the fraction of the double OFF of pow,
\* 0x3fe6955500000000, whose other digits are 0
PowOff == 6903120

\* the exponential of pow for an argument ehi + elo with |ehi| < 2^9: 1 + ehi
\* for |ehi| < 2^-54, and otherwise, with k the integer nearest to ehi * 128 / log(2) and
\* r = ehi - k * log(2) / 128 + elo,
\*   tmp = tail + r + r2 * (C2 + r * C3) + r2 * r2 * (C4 + r * C5)
\*   scale + scale * tmp
\* for <<tail, scale>> of ExpTable at k mod 128, scale times 2^(k div 128)
ExpSum(r, r2, tail, scale) ==
    Fma(Fma(Fma(r, ExpC[4], ExpC[3]), FMul(r2, r2),
            Fma(Fma(r, ExpC[2], ExpC[1]), r2, FAdd(r, tail))),
        scale, scale)

ExpR(n, r, entry) ==
    ExpSum(r, FMul(r, r), entry[1],
           <<1, entry[2][2], entry[2][3], n \div 128>>)

\* kd is ehi * 128 / log(2) + 0x1.8p52, whose last digits are the integer
\* k, and k as a float is kd - 0x1.8p52
ExpKd(ehi, elo, n, k) ==
    ExpR(n, FAdd(elo, Fma(k, ExpNegLn2LoN, Fma(k, ExpNegLn2HiN, ehi))),
         ExpTable[(n % 128) + 1])

ExpK(ehi, elo, kd) ==
    ExpKd(ehi, elo, (kd[2] - 25165824) * H + kd[3], FSub(kd, ExpShift))

ExpInline(ehi, elo) ==
    IF IsZero(ehi) \/ ehi[4] < -54 THEN FAdd(One, ehi)
    ELSE ExpK(ehi, elo, Fma(ehi, ExpInvLn2N, ExpShift))

\* the end of pow(x, y): the logarithm of x is yl + tail, and
\*   ehi = y * yl, elo = y * tail + fma(y, yl, -ehi)
PowExp(y, yl, tail, ehi) ==
    ExpInline(ehi, Fma(y, tail, Fma(yl, y, FNeg(ehi))))

PowTail(y, hi, lo, yl) == PowExp(y, yl, FAdd(FSub(hi, yl), lo), FMul(y, yl))

PowLogOut(y, hi, lo) == PowTail(y, hi, lo, FAdd(hi, lo))

\* the logarithm of pow, for x = z * 2^k: r = z * invc - 1,
\* t1 = k * Ln2hi + logc, t2 = t1 + r, lo1 = k * Ln2lo + logctail,
\* ar = A[0] * r, ar2 = r * ar, ar3 = r * ar2, hi = t2 + ar2;
\*   lo2 = t1 - t2 + r, lo3 = fma(ar, r, -ar2), lo4 = t2 - hi + ar2
\*   p = ar3 * (A[1] + r * A[2] + ar2 * (A[3] + r * A[4]
\*                                       + ar2 * (A[5] + r * A[6])))
\*   lo = lo1 + lo2 + lo3 + lo4 + p
PowLogHi(y, r, t1, lo1, ar, ar2, t2, hi) ==
    PowLogOut(y, hi,
        Fma(FMul(r, ar2),
            Fma(ar2,
                Fma(Fma(r, PowA[7], PowA[6]), ar2,
                    Fma(r, PowA[5], PowA[4])),
                Fma(r, PowA[3], PowA[2])),
            FAdd(FAdd(FAdd(lo1, FAdd(FSub(t1, t2), r)),
                      Fma(ar, r, FNeg(ar2))),
                 FAdd(FSub(t2, hi), ar2))))

PowLogT2(y, r, t1, lo1, ar, ar2, t2) ==
    PowLogHi(y, r, t1, lo1, ar, ar2, t2, FAdd(t2, ar2))

PowLogAr(y, r, t1, lo1, ar) ==
    PowLogT2(y, r, t1, lo1, ar, FMul(r, ar), FAdd(r, t1))

PowLogR(y, kd, r, entry) ==
    PowLogAr(y, r, Fma(kd, PowLn2Hi, entry[2]), Fma(kd, PowLn2Lo, entry[3]),
             FMul(r, PowA[1]))

PowLog(y, red) ==
    PowLogR(y, FromInt(red[2]),
            Fma(red[3], PowLogTable[red[1]][1], MinusOne),
            PowLogTable[red[1]])

\* x ** y for floats x and y = 2.0: the pow of the C library (glibc 2.36,
\* the variant for processors with fused multiply-add), operation by
\* operation, for |y * log(|x|)| < 2^9
Pow(x, y) ==
    IF x = NaN THEN NaN
    ELSE IF IsZero(x) THEN Zero
    ELSE PowLog(y, Reduced(x, PowOff))

\* the float literal m * 10^(-e), for 0 <= e <= 9: the double nearest to it
Float(m, e) == FDiv(FromInt(m), FromInt(Pow10(e)))

\* ------------------------------------------------------------------------
\* Constants of the source
\* ------------------------------------------------------------------------

\* math.pi
Pi == <<1, 26353589, 71576856, 1>>

\* g = 32.2 #gravity
g == Float(322, 1)

\* precision = 1e-4, the attribute that ColebrookEquation.next reads as
\* self.precision (the class body writes it self.precision = 1e-4)
precision == Float(1, 4)

\* self.friction_guess = 1 of ColebrookEquation.__iter__
FirstGuess == FromInt(1)

\* Curve.flow_rate when the attribute has not been assigned
Unbound == -1

\* a local variable of calculate that has not been assigned
Unassigned == <<>>

\* the cap on the iterations of the friction solver (e.g. 100)
IterationCap == 100

\* ------------------------------------------------------------------------
\* The inputs: networks of pipes and fittings, and the sweep of the curve
\* ------------------------------------------------------------------------

\* Pipe(ID, length, diameter, equivalent_roughness, Reynolds); the length,
\* the diameter and the Reynolds number are integers, the roughness is a
\* float
Pipe(ID, length, diameter, equivalent_roughness, Reynolds) ==
    [ID |-> ID, length |-> length, diameter |-> diameter,
     equivalent_roughness |-> equivalent_roughness, Reynolds |-> Reynolds]

\* Fitting(ID, diameter, k_factor); the diameter is an integer, the
\* k-factor is a float
Fitting(ID, diameter, k_factor) ==
    [ID |-> ID, diameter |-> diameter, k_factor |-> k_factor]

\* the networks the model is run on: <<pipes, fittings>>
Networks ==
    { \* the network of the script: one pipe, a fitting of its diameter
      << <<Pipe(1, 100, 10, Float(5, 4), 1000000)>>,
         <<Fitting(1, 10, Float(25, 1))>> >>,
      \* one pipe, a fitting of another diameter
      << <<Pipe(1, 100, 1, Float(1, 2), 1000)>>,
         <<Fitting(1, 2, Float(25, 1))>> >>,
      \* two pipes of different diameters, a fitting on the first
      << <<Pipe(1, 100, 1, Float(1, 2), 1000),
           Pipe(2, 50, 2, Float(5, 2), 10000)>>,
         <<Fitting(1, 1, Float(25, 1))>> >>,
      \* two pipes, the second at a very low Reynolds number
      << <<Pipe(1, 100, 1, Float(1, 2), 1000),
           Pipe(2, 50, 2, Float(5, 2), 5)>>,
         <<Fitting(1, 1, Float(25, 1))>> >>,
      \* one pipe at a very low Reynolds number
      << <<Pipe(1, 100, 10, Float(5, 4), 5)>>, <<>> >>,
      \* no pipe
      << <<>>, <<Fitting(1, 10, Float(25, 1))>> >>,
      \* a pipe whose roughness is not a number
      << <<Pipe(1, 100, 10, NaN, 1000000)>>, <<>> >>,
      \* a pipe of negative roughness
      << <<Pipe(1, 100, 10, FNeg(FromInt(5)), 1000000)>>, <<>> >>,
      \* a pipe of Reynolds number 0
      << <<Pipe(1, 100, 10, Float(5, 4), 0)>>, <<>> >>,
      \* a pipe of diameter 0
      << <<Pipe(1, 100, 0, Float(5, 4), 1000000)>>, <<>> >>,
      \* the pipe of the script, the second of two fittings of diameter 0
      << <<Pipe(1, 100, 10, Float(5, 4), 1000000)>>,
         <<Fitting(1, 10, Float(25, 1)), Fitting(2, 0, Float(25, 1))>> >> }

\* the values of max_flow_rate and flow_increment the model is run on
MaxFlowRates == {1, 2}
FlowIncrements == {0, 1, 2}

\* the bindings of the name ColebrookEquation the model is run on.
\* "unbound" is the outcome of the class statement of the source: its body
\* raises NameError at self.precision = 1e-4 (line 91) and the name stays
\* unbound.  "class" is not an outcome of the source as written: it is the
\* class the statement would bind were line 91 the class attribute
\* precision = 1e-4, and it is run so that lines 77-86 and 96-109, which
\* the source as written never reaches, are exercised as well
ClassStatements == {"unbound", "class"}

\* the traversals: each is one for-loop over the Curve
Traversals == 1 .. NumTraversals

\* ------------------------------------------------------------------------
\* The state
\* ------------------------------------------------------------------------

VARIABLES
    ColebrookEquation,  \* the global name ColebrookEquation: "unbound" or
                        \* "class"
    pipes,              \* Curve.pipes
    fittings,           \* Curve.fittings
    max_flow_rate,      \* Curve.max_flow_rate
    flow_increment,     \* Curve.flow_increment
    flow_rate,          \* Curve.flow_rate, Unbound before the first __iter__
    tstate,             \* per traversal: "new", "active", "stopped",
                        \* "error" (an exception left the loop), "abandoned"
    iterator,           \* per traversal: the object iter() returned to its
                        \* for-loop, "none" before, "self" for the Curve
    out,                \* per traversal: the points next() returned to it
    caller,             \* the traversal whose next() is running, 0 if none
    pc,                 \* where the running next() is: "idle", "pipes"
                        \* (at the head of the loop over the pipes),
                        \* "colebrook" (in the loop over ColebrookEquation)
    i,                  \* calculate: index of the pipe of the loop
    velocity_head,      \* calculate: the local velocity_head
    friction_loss,      \* calculate: the local friction_loss
    friction_guess,     \* ColebrookEquation.friction_guess
    prev_guess,         \* the guess friction_guess was computed from
    yielded,            \* the current ColebrookEquation has yielded a value
    iterations,         \* the next() calls on the current ColebrookEquation
    pipe_losses,        \* per pipe done: the friction_loss assigned in its
                        \* loop, Unassigned if its loop assigned none
    last                \* the outcome of the last calculate that ended

vars == <<ColebrookEquation, pipes, fittings, max_flow_rate, flow_increment,
          flow_rate, tstate, iterator, out, caller, pc, i, velocity_head,
          friction_loss, friction_guess, prev_guess, yielded, iterations,
          pipe_losses, last>>

config == <<ColebrookEquation, pipes, fittings, max_flow_rate,
            flow_increment>>

frame == <<i, velocity_head, friction_loss, friction_guess, prev_guess,
           yielded, iterations, pipe_losses>>

\* the state after the module has run its class statements and
\* Curve(pipes, fittings, max_flow_rate, flow_increment) is constructed:
\* __init__ stores its arguments and checks nothing
Init ==
    /\ ColebrookEquation \in ClassStatements
    /\ \E n \in Networks : pipes = n[1] /\ fittings = n[2]
    /\ max_flow_rate \in MaxFlowRates
    /\ flow_increment \in FlowIncrements
    /\ flow_rate = Unbound
    /\ tstate = [t \in Traversals |-> "new"]
    /\ iterator = [t \in Traversals |-> "none"]
    /\ out = [t \in Traversals |-> <<>>]
    /\ caller = 0
    /\ pc = "idle"
    /\ i = 0
    /\ velocity_head = Unassigned
    /\ friction_loss = Unassigned
    /\ friction_guess = Unassigned
    /\ prev_guess = Unassigned
    /\ yielded = FALSE
    /\ iterations = 0
    /\ pipe_losses = <<>>
    /\ last = [status |-> "none", flow_rate |-> 0, pipe_losses |-> <<>>,
               velocity_head |-> Unassigned, total_friction_loss |-> Zero,
               minor_loss |-> Zero, head |-> Zero]

\* ------------------------------------------------------------------------
\* The computations of calculate and of ColebrookEquation.next
\* ------------------------------------------------------------------------

\* area = math.pi * diameter**2 / 4
Area(diameter) == FDiv(FMul(Pi, FromInt(diameter * diameter)), FromInt(4))

\* velocity = flow_rate / area; velocity_head = velocity**2 / (2 * g),
\* where velocity**2 is the pow of the C library for the floats velocity
\* and 2.0
VelocityHead(rate, area) ==
    FDiv(Pow(FDiv(FromInt(rate), area), FromInt(2)), FMul(FromInt(2), g))

\* the candidate of ColebrookEquation.next, or the exception the expression
\* raises:
\*   -2.0 * math.log((roughness / diameter) / 3.7
\*                   + 2.51 / (Reynolds * math.sqrt(friction_guess)), 10)
\* The division by the diameter 0 raises ZeroDivisionError, math.sqrt of a
\* negative guess raises ValueError, the division by
\* Reynolds * math.sqrt(friction_guess) raises ZeroDivisionError when the
\* product is 0, which it is when one of its factors is, and math.log
\* raises ValueError when the sum is <= 0
CandidateOf(logarithm) ==
    IF IsRaised(logarithm) THEN logarithm
    ELSE FMul(FromInt(-2), logarithm)

ColebrookCandidate(pipe, guess) ==
    IF pipe.diameter = 0 THEN ZeroDivisionError
    ELSE IF guess # NaN /\ ~IsZero(guess) /\ guess[1] = -1 THEN ValueError
    ELSE IF pipe.Reynolds = 0 \/ IsZero(guess) THEN ZeroDivisionError
    ELSE LET rough  == FDiv(FDiv(pipe.equivalent_roughness,
                                 FromInt(pipe.diameter)),
                            Float(37, 1))
             smooth == FDiv(Float(251, 2),
                            FMul(FromInt(pipe.Reynolds), FSqrt(guess)))
         IN  CandidateOf(Log10(FAdd(rough, smooth)))

\* a ColebrookEquation.next that tests only from its second call on, so
\* that the first candidate is always yielded
ColebrookStopsAfterFirst(friction_factor, guess) ==
    /\ guess # FirstGuess
    /\ FLess(FSub(friction_factor, guess), precision)

\* the test of ColebrookEquation.next that raises StopIteration:
\*   friction_factor - self.friction_guess < self.precision
ColebrookStops(friction_factor, guess) ==
    FLess(FSub(friction_factor, guess), precision)

\* friction_loss = friction_factor * pipe.length / pipe.diameter
\*                 * velocity_head
FrictionLoss(friction_factor, pipe, vh) ==
    FMul(FDiv(FMul(friction_factor, FromInt(pipe.length)),
              FromInt(pipe.diameter)),
         vh)

\* the value of friction_loss when calculate starts: it is not assigned
InitialFrictionLoss == Unassigned

\* the loop over the fittings: minor_loss += fitting.k_factor * velocity_head
\* for each fitting in turn, from minor_loss, with the velocity_head left by
\* the loop over the pipes
RECURSIVE MinorLoss(_, _, _)
MinorLoss(minor_loss, fs, vh) ==
    IF fs = <<>> THEN minor_loss
    ELSE MinorLoss(FAdd(minor_loss, FMul(Head(fs).k_factor, vh)),
                   Tail(fs), vh)

\* velocity = self.flow_rate / area divides by zero for some fitting
FittingDividesByZero(fs) ==
    \E j \in 1 .. Len(fs) : IsZero(Area(fs[j].diameter))

\* the fittings whose minor loss is added before the loop over the fittings
\* reaches a fitting whose area is 0
RECURSIVE FittingsDone(_)
FittingsDone(fs) ==
    IF fs = <<>> \/ IsZero(Area(Head(fs).diameter)) THEN <<>>
    ELSE <<Head(fs)>> \o FittingsDone(Tail(fs))

\* an __iter__ that sets flow_rate only when it has none yet
IterFlowRateOnce(rate) == IF rate = Unbound THEN 0 ELSE rate

\* the value __iter__ gives flow_rate
IterFlowRate(rate) == 0

\* ------------------------------------------------------------------------
\* The operations
\* ------------------------------------------------------------------------

\* calculate is left, by return or by an exception: its locals and the
\* ColebrookEquation object are gone
FrameDiscarded ==
    /\ i' = 0
    /\ velocity_head' = Unassigned
    /\ friction_loss' = Unassigned
    /\ friction_guess' = Unassigned
    /\ prev_guess' = Unassigned
    /\ yielded' = FALSE
    /\ iterations' = 0
    /\ pipe_losses' = <<>>

\* an exception leaves calculate, next and the for-loop of the caller, the
\* locals velocity_head, total_friction_loss and minor_loss being vh, total
\* and minor when it is raised: the traversal is over, flow_rate keeps its
\* value, no head is computed
Raise(kind, vh, total, minor) ==
    /\ tstate' = [tstate EXCEPT ![caller] = "error"]
    /\ last' = [status |-> kind, flow_rate |-> flow_rate,
                pipe_losses |-> pipe_losses, velocity_head |-> vh,
                total_friction_loss |-> total, minor_loss |-> minor,
                head |-> Zero]
    /\ caller' = 0
    /\ pc' = "idle"
    /\ FrameDiscarded
    /\ UNCHANGED <<config, flow_rate, iterator, out>>

\* Curve.__iter__, called by a for-loop that starts: flow_rate = 0, and
\* return self, so that the Curve itself is the iterator of the loop
IterCall(t) ==
    /\ caller = 0
    /\ tstate[t] # "active"
    /\ flow_rate' = IterFlowRate(flow_rate)
    /\ tstate' = [tstate EXCEPT ![t] = "active"]
    /\ iterator' = [iterator EXCEPT ![t] = "self"]
    /\ out' = [out EXCEPT ![t] = <<>>]
    /\ UNCHANGED <<config, caller, pc, frame, last>>

\* the for-loop of traversal t is left with break: no further next()
Abandon(t) ==
    /\ caller = 0
    /\ tstate[t] = "active"
    /\ tstate' = [tstate EXCEPT ![t] = "abandoned"]
    /\ UNCHANGED <<config, flow_rate, iterator, out, caller, pc, frame,
                   last>>

\* Curve.next is called by the for-loop of traversal t and enters calculate:
\* total_friction_loss = 0, minor_loss = 0, the other locals are unassigned
NextCall(t) ==
    /\ caller = 0
    /\ tstate[t] = "active"
    /\ Len(out[t]) < MaxPoints
    /\ caller' = t
    /\ pc' = "pipes"
    /\ i' = 1
    /\ velocity_head' = Unassigned
    /\ friction_loss' = InitialFrictionLoss
    /\ friction_guess' = Unassigned
    /\ prev_guess' = Unassigned
    /\ yielded' = FALSE
    /\ iterations' = 0
    /\ pipe_losses' = <<>>
    /\ UNCHANGED <<config, flow_rate, tstate, iterator, out, last>>

\* calculate, the head of the loop over the pipes for one more pipe: area,
\* velocity (which divides by zero when the area is 0) and velocity_head of
\* the pipe, then ColebrookEquation(pipe), which raises NameError when the
\* name is unbound, and its __iter__, which sets friction_guess = 1
PipeStep ==
    /\ pc = "pipes"
    /\ i <= Len(pipes)
    /\ IF IsZero(Area(pipes[i].diameter))
          THEN Raise("ZeroDivisionError", velocity_head, Zero, Zero)
          ELSE IF ColebrookEquation = "unbound"
          THEN Raise("NameError",
                     VelocityHead(flow_rate, Area(pipes[i].diameter)),
                     Zero, Zero)
          ELSE /\ velocity_head' =
                      VelocityHead(flow_rate, Area(pipes[i].diameter))
               /\ friction_guess' = FirstGuess
               /\ prev_guess' = Unassigned
               /\ yielded' = FALSE
               /\ iterations' = 0
               /\ pc' = "colebrook"
               /\ UNCHANGED <<config, flow_rate, tstate, iterator, out,
                              caller, i, friction_loss, pipe_losses, last>>

\* the rest of ColebrookEquation.next once friction_factor is computed, and,
\* when it yields, the body of the inner loop of calculate; when it raises
\* StopIteration the inner loop ends and calculate goes to the next pipe;
\* an exception raised by the expression of friction_factor leaves
\* calculate
ColebrookNext(friction_factor) ==
    IF IsRaised(friction_factor)
       THEN Raise(friction_factor[1], velocity_head, Zero, Zero)
       ELSE /\ iterations' = iterations + 1
            /\ IF ColebrookStops(friction_factor, friction_guess)
                  THEN /\ pipe_losses' = Append(pipe_losses,
                              IF yielded THEN friction_loss ELSE Unassigned)
                       /\ i' = i + 1
                       /\ pc' = "pipes"
                       /\ UNCHANGED <<friction_guess, prev_guess, yielded,
                                      friction_loss>>
                  ELSE /\ friction_guess' = friction_factor
                       /\ prev_guess' = friction_guess
                       /\ yielded' = TRUE
                       /\ friction_loss' =
                              FrictionLoss(friction_factor, pipes[i],
                                           velocity_head)
                       /\ UNCHANGED <<pipe_losses, i, pc>>
            /\ UNCHANGED <<config, flow_rate, tstate, iterator, out, caller,
                           velocity_head, last>>

\* one step of the inner loop of calculate: ColebrookEquation.next
ColebrookStep ==
    /\ pc = "colebrook"
    /\ iterations < MaxIterations
    /\ ColebrookNext(ColebrookCandidate(pipes[i], friction_guess))

\* calculate after the loop over the pipes, and the rest of Curve.next:
\* total_friction_loss += friction_loss, the loop over the fittings, the
\* return of the sum; then next adds flow_increment to flow_rate and either
\* raises StopIteration or returns the point
Finish ==
    /\ pc = "pipes"
    /\ i > Len(pipes)
    /\ IF friction_loss = Unassigned
          THEN Raise("UnboundLocalError", velocity_head, Zero, Zero)
          ELSE IF FittingDividesByZero(fittings)
          THEN Raise("ZeroDivisionError", velocity_head,
                     FAdd(Zero, friction_loss),
                     MinorLoss(Zero, FittingsDone(fittings), velocity_head))
          ELSE LET total_friction_loss == FAdd(Zero, friction_loss)
                   minor_loss == MinorLoss(Zero, fittings, velocity_head)
                   head == FAdd(total_friction_loss, minor_loss)
               IN  /\ last' = [status |-> "returned",
                               flow_rate |-> flow_rate,
                               pipe_losses |-> pipe_losses,
                               velocity_head |-> velocity_head,
                               total_friction_loss |-> total_friction_loss,
                               minor_loss |-> minor_loss, head |-> head]
                   /\ flow_rate' = flow_rate + flow_increment
                   /\ IF flow_rate' > max_flow_rate
                         THEN /\ tstate' =
                                     [tstate EXCEPT ![caller] = "stopped"]
                              /\ out' = out
                         ELSE /\ out' = [out EXCEPT ![caller] =
                                     Append(@, <<flow_rate, head>>)]
                              /\ tstate' = tstate
                   /\ caller' = 0
                   /\ pc' = "idle"
                   /\ FrameDiscarded
                   /\ UNCHANGED <<config, iterator>>

Next ==
    \/ \E t \in Traversals : IterCall(t)
    \/ \E t \in Traversals : NextCall(t)
    \/ \E t \in Traversals : Abandon(t)
    \/ PipeStep
    \/ ColebrookStep
    \/ Finish

Spec == Init /\ [][Next]_vars

\* traversals that follow each other: a for-loop over the Curve starts only
\* when no other is under way
SeqIterCall(t) ==
    /\ \A u \in Traversals \ {t} : tstate[u] # "active"
    /\ IterCall(t)

SeqNext ==
    \/ \E t \in Traversals : SeqIterCall(t)
    \/ \E t \in Traversals : NextCall(t)
    \/ \E t \in Traversals : Abandon(t)
    \/ PipeStep
    \/ ColebrookStep
    \/ Finish

SeqSpec == Init /\ [][SeqNext]_vars

\* the source as written: the class statement of ColebrookEquation has
\* raised NameError and the name is unbound
WrittenInit ==
    /\ Init
    /\ ColebrookEquation = "unbound"

\* the steps of the source as written, the traversals interleaved: no
\* ColebrookEquation object exists, so that ColebrookEquation.next is never
\* called
WrittenNext ==
    \/ \E t \in Traversals : IterCall(t)
    \/ \E t \in Traversals : NextCall(t)
    \/ \E t \in Traversals : Abandon(t)
    \/ PipeStep
    \/ Finish

WrittenSpec == WrittenInit /\ [][WrittenNext]_vars

TypeOK ==
    /\ ColebrookEquation \in ClassStatements
    /\ tstate \in [Traversals ->
           {"new", "active", "stopped", "error", "abandoned"}]
    /\ iterator \in [Traversals -> {"none", "self"}]
    /\ caller \in 0 .. NumTraversals
    /\ pc \in {"idle", "pipes", "colebrook"}
    /\ (caller = 0) = (pc = "idle")

\* ------------------------------------------------------------------------
\* The claims
\* ------------------------------------------------------------------------

\* the sum of a sequence of floats, added in turn to acc
RECURSIVE SumSeq(_, _)
SumSeq(acc, s) ==
    IF s = <<>> THEN acc ELSE SumSeq(FAdd(acc, Head(s)), Tail(s))

\* the last assigned entry of a sequence of pipe losses, Unassigned if none
RECURSIVE LastAssigned(_)
LastAssigned(s) ==
    IF s = <<>> THEN Unassigned
    ELSE IF s[Len(s)] # Unassigned THEN s[Len(s)]
    ELSE LastAssigned(SubSeq(s, 1, Len(s) - 1))

\* the minor loss with every fitting's velocity head taken from the
\* fitting's own diameter, added in turn to acc
RECURSIVE OwnMinorLoss(_, _, _)
OwnMinorLoss(acc, fs, rate) ==
    IF fs = <<>> THEN acc
    ELSE OwnMinorLoss(
             FAdd(acc, FMul(Head(fs).k_factor,
                            VelocityHead(rate, Area(Head(fs).diameter)))),
             Tail(fs), rate)

\* the network satisfies the invariants of the data model: positive lengths,
\* diameters and Reynolds numbers, roughness and k-factors that are numbers
\* >= 0
ValidNetwork ==
    /\ \A j \in 1 .. Len(pipes) :
           /\ pipes[j].length > 0
           /\ pipes[j].diameter > 0
           /\ pipes[j].Reynolds > 0
           /\ pipes[j].equivalent_roughness # NaN
           /\ ~FLess(pipes[j].equivalent_roughness, Zero)
    /\ \A j \in 1 .. Len(fittings) :
           /\ fittings[j].diameter > 0
           /\ fittings[j].k_factor # NaN
           /\ ~FLess(fittings[j].k_factor, Zero)

\* the Curve is one the specification admits: a valid network, and
\* flow_increment > 0 and max_flow_rate > 0
ValidCurve ==
    /\ ValidNetwork
    /\ flow_increment > 0
    /\ max_flow_rate > 0

\* for every pipe the first candidate, computed from the guess 1, has
\* candidate - 1 < precision
NoPipeYields ==
    \A j \in 1 .. Len(pipes) :
        FLess(FSub(ColebrookCandidate(pipes[j], FirstGuess), FirstGuess),
              precision)

\* the for-loop of traversal t is over: next() raised StopIteration, or an
\* exception left the loop
Ended(t) == tstate[t] \in {"stopped", "error"}

\* C1: with flow_increment > 0 and max_flow_rate > 0, on a valid network
\* with a pipe, a traversal that is over has run to StopIteration and has
\* emitted floor(max_flow_rate / flow_increment) + 1 points, at the flow
\* rates 0, flow_increment, 2 * flow_increment, ...
C1_AllMultiplesEmitted ==
    \A t \in Traversals :
        (/\ Ended(t)
         /\ ValidCurve
         /\ Len(pipes) >= 1)
        => /\ tstate[t] = "stopped"
           /\ Len(out[t]) = (max_flow_rate \div flow_increment) + 1
           /\ \A j \in 1 .. Len(out[t]) :
                  out[t][j][1] = (j - 1) * flow_increment

\* C2: on a valid Curve of two or more pipes, a calculate that has ended
\* has returned, every pipe has a friction loss, and the total friction
\* loss returned is the sum of the friction losses of all the pipes
C2_AllPipesSummed ==
    (/\ ValidCurve
     /\ Len(pipes) >= 2
     /\ last.status # "none")
    => /\ last.status = "returned"
       /\ Len(last.pipe_losses) = Len(pipes)
       /\ \A j \in 1 .. Len(last.pipe_losses) :
              last.pipe_losses[j] # Unassigned
       /\ FEq(last.total_friction_loss, SumSeq(Zero, last.pipe_losses))

\* C3: on a valid Curve with a pipe and a fitting, a calculate that has
\* ended has returned, and the minor loss it returned is the sum over the
\* fittings of k_factor times the velocity head of the fitting's own
\* diameter
C3_MinorLossOwnDiameter ==
    (/\ ValidCurve
     /\ Len(pipes) >= 1
     /\ Len(fittings) >= 1
     /\ last.status # "none")
    => /\ last.status = "returned"
       /\ FEq(last.minor_loss,
              OwnMinorLoss(Zero, fittings, last.flow_rate))

\* C4: for a valid network with at least one pipe, calculate at flow rate 0
\* ends without an error and returns 0
C4_ZeroFlowIsZeroHead ==
    (/\ ValidNetwork
     /\ Len(pipes) >= 1
     /\ last.status # "none"
     /\ last.flow_rate = 0)
    => (last.status = "returned" /\ IsZero(last.head))

C6_Restartable ==
    /\ \A t, u \in Traversals :
           (tstate[t] = "stopped" /\ tstate[u] = "stopped")
           => out[t] = out[u]
    /\ \A t \in Traversals : out[t] # <<>> => out[t][1][1] = 0

\* two traversals have run to StopIteration and returned points
C6_Witness ==
    /\ tstate[1] = "stopped"
    /\ tstate[2] = "stopped"
    /\ Len(out[2]) >= 2

\* C7: on a valid Curve, a calculate that has ended has an accepted
\* friction factor for every pipe; and when the iteration of a pipe has
\* ended, the last value it yielded differs from the guess it was computed
\* from by less than precision, and is positive
C7_AcceptedWithinPrecision ==
    /\ (ValidCurve /\ last.status # "none")
       => /\ Len(last.pipe_losses) = Len(pipes)
          /\ \A j \in 1 .. Len(last.pipe_losses) :
                 last.pipe_losses[j] # Unassigned
    /\ (pc = "pipes" /\ yielded)
       => /\ FLess(FSub(friction_guess, prev_guess), precision)
          /\ FLess(FSub(prev_guess, friction_guess), precision)
          /\ FLess(Zero, friction_guess)

C9_BadIncrementRejected ==
    /\ flow_increment > 0
    /\ \A j \in 1 .. Len(pipes) : pipes[j].diameter # 0
    /\ \A j \in 1 .. Len(fittings) : fittings[j].diameter # 0

\* C10: calculate returns a head only if the iteration of some pipe yielded
\* a value; once past the pipes it ends in UnboundLocalError exactly when
\* the first candidate of every pipe meets the stop test (or there is no
\* pipe); and the friction loss in a returned head is the one assigned last,
\* which is an earlier pipe's when the last pipe yields nothing
C10_HeadNeedsYield ==
    /\ last.status = "returned"
       => \E j \in 1 .. Len(last.pipe_losses) :
              last.pipe_losses[j] # Unassigned
    /\ (pc = "idle" /\ last.status \in {"returned", "UnboundLocalError"})
       => ((last.status = "UnboundLocalError") <=> NoPipeYields)
    /\ last.status = "returned"
       => last.total_friction_loss = LastAssigned(last.pipe_losses)

\* calculate has failed on a network with a pipe whose iteration yielded
\* nothing
C10_Witness ==
    /\ last.status = "UnboundLocalError"
    /\ last.pipe_losses = <<Unassigned>>

====
